---- MODULE Spec2Model ----
(***************************************************************************)
(* Model of the connectivity-tester log consumers:                         *)
(*   - the summary cache of app/webserver.py (SUMMARY_CACHE,               *)
(*     reset_summary_cache, build_daily_summary_from_file),                *)
(*   - the MQTT relay of app/mqtt_publisher.py (MqttPublisher.run/stop),   *)
(*   - the log file they tail, appended to, truncated and replaced by an   *)
(*     out-of-process writer.                                              *)
(*                                                                         *)
(* Text is modelled as sequences of character codes (naturals): the digit  *)
(* characters have the codes 0..9, letters larger codes.  The log file is  *)
(* a sequence of bytes; a byte is <<kind, i>>, the i-th chunk of the JSON  *)
(* text of line kind `kind`, or the newline NL.  File offsets (st_size,    *)
(* tell(), seek()) count these bytes.                                      *)
(***************************************************************************)
EXTENDS Integers, Sequences, FiniteSets, TLC

\* ------------------------------------------------------------------ bounds
MaxFile == 4        \* the writer stops appending at this many bytes
MaxInode == 2       \* inode numbers the file system hands out: 1..MaxInode
MaxOps == 1         \* removals/replacements of the log file in one behaviour
MaxPublished == 4   \* messages recorded as handed to the MQTT client

\* ------------------------------------------------------- JSON values, text
\* A JSON/Python value: None, a number, or a string (sequence of codes).
None == [k |-> "none", v |-> 0]
Num(n) == [k |-> "num", v |-> n]
Str(s) == [k |-> "str", v |-> s]

\* Python truthiness (`if not ts`, `a or b`, `if tgt`).
Truthy(x) ==
    CASE x.k = "none" -> FALSE
      [] x.k = "num" -> x.v # 0
      [] x.k = "str" -> x.v # <<>>

\* `a or b`
PyOr(a, b) == IF Truthy(a) THEN a ELSE b

\* isinstance(x, (int, float))
IsNumber(x) == x.k = "num"

CharT == 84         \* the code of the letter "T"
Digits == 0..9

RECURSIVE DecimalValue(_)
\* The number written by a sequence of digit codes.
DecimalValue(s) ==
    IF s = <<>> THEN 0
    ELSE 10 * DecimalValue(SubSeq(s, 1, Len(s) - 1)) + s[Len(s)]

\* float(x): a number for numbers and for numeric text, else TypeError or
\* ValueError, which the callers catch (modelled as None).
PyFloat(x) ==
    CASE x.k = "num" -> Num(x.v)
      [] x.k = "str" /\ x.v # <<>> /\ (\A i \in 1..Len(x.v) : x.v[i] \in Digits)
            -> Num(DecimalValue(x.v))
      [] OTHER -> None

RECURSIVE DecimalText(_)
\* The digits of a natural number.
DecimalText(n) ==
    IF n < 10 THEN <<n>> ELSE DecimalText(n \div 10) \o <<n % 10>>

\* str(x) of a truthy value.
PyStr(x) == IF x.k = "str" THEN x.v ELSE DecimalText(x.v)

\* ts.split("T")[0]: the text before the first "T" (all of it if none).
SplitT(s) ==
    IF \E i \in 1..Len(s) : s[i] = CharT
    THEN LET i == CHOOSE j \in 1..Len(s) :
                    s[j] = CharT /\ \A h \in 1..(j - 1) : s[h] # CharT
         IN  SubSeq(s, 1, i - 1)
    ELSE s

\* Lexicographic order of texts (Python's order of str).
RECURSIVE LexLess(_, _)
LexLess(a, b) ==
    IF b = <<>> THEN FALSE
    ELSE IF a = <<>> THEN TRUE
    ELSE IF a[1] # b[1] THEN a[1] < b[1]
    ELSE LexLess(Tail(a), Tail(b))

RECURSIVE SortedDescending(_)
\* (mutant) the largest text first.
SortedDescending(S) ==
    IF S = {} THEN <<>>
    ELSE LET m == CHOOSE x \in S : \A y \in S : x = y \/ LexLess(y, x)
         IN  <<m>> \o SortedDescending(S \ {m})

RECURSIVE Sorted(_)
\* sorted(S) for a set of texts.
Sorted(S) ==
    IF S = {} THEN <<>>
    ELSE LET m == CHOOSE x \in S : \A y \in S : x = y \/ LexLess(x, y)
         IN  <<m>> \o Sorted(S \ {m})

RECURSIVE Gcd(_, _)
Gcd(a, b) == IF b = 0 THEN a ELSE Gcd(b, a % b)

\* The quotient a / b (b > 0, a >= 0) of two floats holding integers, kept
\* exact as a fraction in lowest terms.
Quot(a, b) == LET g == Gcd(a, b) IN [num |-> a \div g, den |-> b \div g]

\* ------------------------------------------------------------- log lines
NL == <<"nl", 0>>

\* Kinds of line the writer produces: JSON objects, a JSON value that is
\* no object, text that is no JSON, and the empty line.
ObjectKinds == {"r1", "r2", "r3", "nots"}
TextKinds == ObjectKinds \cup {"arr", "bad", "blank"}

\* The bytes of a line of each kind, without its newline.
JsonText(kind) ==
    CASE kind = "blank" -> <<>>
      [] kind = "bad" -> << <<"bad", 1>> >>
      [] OTHER -> << <<kind, 1>>, <<kind, 2>> >>

\* The object each JSON object text decodes to.
Decoded(kind) ==
    CASE kind = "r1" ->
            [timestamp |-> Str(<<1, CharT, 1>>), target |-> Str(<<65>>),
             dst_host |-> None, public_ip |-> Str(<<80>>),
             sent |-> Num(5), received |-> Num(5),
             loss_pct |-> Num(0), rtt_avg_ms |-> Num(12)]
      [] kind = "r2" ->
            [timestamp |-> Str(<<1, CharT, 2>>), target |-> None,
             dst_host |-> Str(<<66>>), public_ip |-> None,
             sent |-> Num(5), received |-> Num(0),
             loss_pct |-> Num(100), rtt_avg_ms |-> None]
      [] kind = "r3" ->
            [timestamp |-> Str(<<2, CharT, 1>>), target |-> Str(<<65>>),
             dst_host |-> Str(<<66>>), public_ip |-> Str(<<81>>),
             sent |-> Str(<<5>>), received |-> None,
             loss_pct |-> Num(50), rtt_avg_ms |-> Str(<<1, 8>>)]
      [] kind = "nots" ->
            [timestamp |-> None, target |-> Str(<<65>>),
             dst_host |-> None, public_ip |-> None,
             sent |-> Num(5), received |-> Num(5),
             loss_pct |-> Num(0), rtt_avg_ms |-> Num(12)]

\* json.loads(text): an object, another JSON value, or JSONDecodeError.
JsonLoads(text) ==
    IF \E kind \in ObjectKinds : JsonText(kind) = text
    THEN [res |-> "object",
          rec |-> Decoded(CHOOSE kind \in ObjectKinds : JsonText(kind) = text)]
    ELSE IF text = JsonText("arr")
    THEN [res |-> "value"]
    ELSE [res |-> "JSONDecodeError"]

\* line.strip(): the only whitespace byte of the model is the newline.
Strip(line) ==
    IF line # <<>> /\ line[Len(line)] = NL
    THEN SubSeq(line, 1, Len(line) - 1)
    ELSE line

RECURSIVE LinesOf(_)
\* Iterating a text file: the bytes cut after every newline; a last line
\* without newline is yielded as it is.
LinesOf(bytes) ==
    IF bytes = <<>> THEN <<>>
    ELSE IF \E i \in 1..Len(bytes) : bytes[i] = NL
    THEN LET i == CHOOSE j \in 1..Len(bytes) :
                    bytes[j] = NL /\ \A h \in 1..(j - 1) : bytes[h] # NL
         IN  <<SubSeq(bytes, 1, i)>> \o LinesOf(SubSeq(bytes, i + 1, Len(bytes)))
    ELSE <<bytes>>

\* (mutant) the seek is left out: the iteration starts at byte 0.
ReadLinesFromStart(bytes, pos) == LinesOf(bytes)

\* f.seek(pos) followed by `for line in f`.
ReadLinesFrom(bytes, pos) == LinesOf(SubSeq(bytes, pos + 1, Len(bytes)))

\* f.tell() once the iteration is exhausted: the end of the file, or the
\* seek target when that lies beyond it.
TellAtEof(bytes, pos) == IF pos > Len(bytes) THEN pos ELSE Len(bytes)

\* ------------------------------------------------------- daily aggregator
\* _ensure_day_state: the state a day starts with.
NewDayState(day) ==
    [date |-> day, total_probes |-> 0, total_sent |-> 0, total_received |-> 0,
     loss_sum |-> 0, loss_count |-> 0,
     good_probes |-> 0, degraded_probes |-> 0, down_probes |-> 0,
     rtt_sum |-> 0, rtt_count |-> 0, rtt_min |-> None, rtt_max |-> None,
     targets |-> {}, public_ips |-> {}]

\* (mutant) a day not yet known replaces the days known so far.
EnsureDayStateForgets(daily, day) ==
    IF day \in DOMAIN daily THEN daily ELSE (day :> NewDayState(day))

EnsureDayState(daily, day) ==
    IF day \in DOMAIN daily THEN daily ELSE daily @@ (day :> NewDayState(day))

\* (mutant) every loss that is not 0 counts as down.
ClassifyAnyLossDown(loss) == IF loss.v = 0 THEN "good" ELSE "down"

\* Lines 219-224: the bucket of a numeric loss.
Classify(loss) ==
    IF loss.v = 0 THEN "good"
    ELSE IF loss.v = 100 THEN "down"
    ELSE "degraded"

\* (mutant) a loss that is no number is counted as a sample of 0.
CountLossAlways(d, loss) ==
    IF IsNumber(loss)
    THEN [d EXCEPT !.loss_sum = @ + loss.v,
                   !.loss_count = @ + 1,
                   !.good_probes = IF Classify(loss) = "good" THEN @ + 1 ELSE @,
                   !.down_probes = IF Classify(loss) = "down" THEN @ + 1 ELSE @,
                   !.degraded_probes =
                        IF Classify(loss) = "degraded" THEN @ + 1 ELSE @]
    ELSE [d EXCEPT !.loss_count = @ + 1]

\* Lines 215-224: a numeric loss_pct goes into the loss sum and count and
\* into one bucket; any other value changes nothing.
CountLoss(d, loss) ==
    IF IsNumber(loss)
    THEN [d EXCEPT !.loss_sum = @ + loss.v,
                   !.loss_count = @ + 1,
                   !.good_probes = IF Classify(loss) = "good" THEN @ + 1 ELSE @,
                   !.down_probes = IF Classify(loss) = "down" THEN @ + 1 ELSE @,
                   !.degraded_probes =
                        IF Classify(loss) = "degraded" THEN @ + 1 ELSE @]
    ELSE d

\* (mutant) a parsing RTT is counted twice.
CountRttTwice(d, rtt) ==
    LET rtt_val == PyFloat(rtt)
    IN  IF rtt_val # None
        THEN [d EXCEPT !.rtt_sum = @ + rtt_val.v,
                       !.rtt_count = @ + 2,
                       !.rtt_min = IF @ = None \/ rtt_val.v < @.v
                                   THEN rtt_val ELSE @,
                       !.rtt_max = IF @ = None \/ rtt_val.v > @.v
                                   THEN rtt_val ELSE @]
        ELSE d

\* (mutant) minimum and maximum keep the first value.
CountRttKeepsFirst(d, rtt) ==
    LET rtt_val == PyFloat(rtt)
    IN  IF rtt_val # None
        THEN [d EXCEPT !.rtt_sum = @ + rtt_val.v,
                       !.rtt_count = @ + 1,
                       !.rtt_min = IF @ = None THEN rtt_val ELSE @,
                       !.rtt_max = IF @ = None THEN rtt_val ELSE @]
        ELSE d

\* Lines 226-237: an rtt_avg_ms that float() accepts goes into the RTT
\* sum and count and moves minimum and maximum; any other changes nothing.
CountRtt(d, rtt) ==
    LET rtt_val == PyFloat(rtt)
    IN  IF rtt_val # None
        THEN [d EXCEPT !.rtt_sum = @ + rtt_val.v,
                       !.rtt_count = @ + 1,
                       !.rtt_min = IF @ = None \/ rtt_val.v < @.v
                                   THEN rtt_val ELSE @,
                       !.rtt_max = IF @ = None \/ rtt_val.v > @.v
                                   THEN rtt_val ELSE @]
        ELSE d

\* The body of the read loop for one decoded object with a truthy
\* timestamp: the day's state after the record is merged.
MergeIntoDay(d, rec) ==
    LET sent == rec.sent
        recv == rec.received
        tgt == PyOr(rec.target, rec.dst_host)
        pub == rec.public_ip
        d1 == [d EXCEPT !.total_probes = @ + 1]
        d2 == IF IsNumber(sent) THEN [d1 EXCEPT !.total_sent = @ + sent.v] ELSE d1
        d3 == IF IsNumber(recv) THEN [d2 EXCEPT !.total_received = @ + recv.v] ELSE d2
        d4 == CountLoss(d3, rec.loss_pct)
        d5 == CountRtt(d4, rec.rtt_avg_ms)
        d6 == IF Truthy(tgt) THEN [d5 EXCEPT !.targets = @ \cup {PyStr(tgt)}] ELSE d5
    IN  IF Truthy(pub) THEN [d6 EXCEPT !.public_ips = @ \cup {PyStr(pub)}] ELSE d6

\* Lines 200-244 for one decoded object: a record without timestamp is
\* skipped; any other is merged into the day its timestamp names.
MergeRecord(daily, rec) ==
    IF ~Truthy(rec.timestamp) THEN daily
    ELSE LET day == SplitT(rec.timestamp.v)
             daily1 == EnsureDayState(daily, day)
         IN  [daily1 EXCEPT ![day] = MergeIntoDay(@, rec)]

\* One iteration of the read loop of build_daily_summary_from_file on one
\* line: the aggregator after it, and whether the iteration raised (the
\* .get of a JSON value that is no object raises AttributeError).
MergeLine(daily, line) ==
    LET text == Strip(line)
        js == JsonLoads(text)
    IN  IF text = <<>> THEN [daily |-> daily, raised |-> FALSE]
        ELSE IF js.res = "JSONDecodeError" THEN [daily |-> daily, raised |-> FALSE]
        ELSE IF js.res = "value" THEN [daily |-> daily, raised |-> TRUE]
        ELSE [daily |-> MergeRecord(daily, js.rec), raised |-> FALSE]

RECURSIVE MergeLinesBackwards(_, _)
\* (mutant) the loop takes the lines last to first.
MergeLinesBackwards(daily, lines) ==
    IF lines = <<>> THEN [daily |-> daily, raised |-> FALSE]
    ELSE LET one == MergeLine(daily, lines[Len(lines)])
         IN  IF one.raised THEN one
             ELSE MergeLinesBackwards(one.daily, SubSeq(lines, 1, Len(lines) - 1))

RECURSIVE MergeLines(_, _)
\* The read loop over the lines the iteration yields, stopping at the
\* first one that raises.
MergeLines(daily, lines) ==
    IF lines = <<>> THEN [daily |-> daily, raised |-> FALSE]
    ELSE LET one == MergeLine(daily, Head(lines))
         IN  IF one.raised THEN one ELSE MergeLines(one.daily, Tail(lines))

\* (mutant) a day without RTT sample gets the average 0.
AvgRttZero(d) ==
    IF d.rtt_count > 0 THEN Quot(d.rtt_sum, d.rtt_count) ELSE Quot(0, 1)

\* Lines 84-87: the mean RTT, None for a day without RTT sample.
AvgRtt(d) ==
    IF d.rtt_count > 0 THEN Quot(d.rtt_sum, d.rtt_count) ELSE None

\* One row of the snapshot.
SummaryRow(d) ==
    [date |-> d.date,
     total_probes |-> d.total_probes,
     uptime_pct |-> IF d.total_probes > 0
                    THEN Quot(100 * (d.total_probes - d.down_probes), d.total_probes)
                    ELSE Quot(0, 1),
     avg_loss_pct |-> IF d.loss_count > 0 THEN Quot(d.loss_sum, d.loss_count)
                      ELSE Quot(0, 1),
     avg_rtt_ms |-> AvgRtt(d),
     min_rtt_ms |-> d.rtt_min,
     max_rtt_ms |-> d.rtt_max,
     good_probes |-> d.good_probes,
     degraded_probes |-> d.degraded_probes,
     down_probes |-> d.down_probes,
     targets |-> Sorted(d.targets),
     public_ips |-> Sorted(d.public_ips)]

\* _summaries_from_state: one row per day, sorted by date.
SummariesFromState(daily) ==
    LET days == Sorted(DOMAIN daily)
    IN  IF days = <<>> THEN <<>>
        ELSE [i \in 1..Len(days) |-> SummaryRow(daily[days[i]])]

EmptyDaily == <<>>

\* What a cache that starts empty computes from a file it reads whole.
FreshDaily(bytes) == MergeLines(EmptyDaily, ReadLinesFrom(bytes, 0)).daily
FreshSummary(bytes) == SummariesFromState(FreshDaily(bytes))

\* ------------------------------------------------------------------ state
VARIABLES
    fexists,      \* the log file exists at LOG_FILE
    finode,       \* st_ino of the file at LOG_FILE
    file,         \* its bytes
    wrest,        \* bytes of the line the writer has begun and not finished
    ops,          \* removals and replacements of the file so far
    cache,        \* SUMMARY_CACHE
    pc,           \* per request thread: where it is in build_daily_summary_from_file
    st,           \* per thread: the os.stat result it holds
    held,         \* per thread: which dict its local `daily` refers to
    olddaily,     \* per thread: a dict the cache no longer refers to
    start_pos,    \* per thread: its local start_pos
    result,       \* per thread: what its last call returned
    hist,         \* history variables the properties are stated with
    rpc,          \* the relay thread: where it is in MqttPublisher.run
    renabled,     \* settings.enabled
    rstop,        \* _stop_event is set
    rlast_size,   \* _last_size
    rlast_inode,  \* _last_inode
    rstat,        \* the stat result the relay thread holds
    rclient,      \* self.client
    published,    \* the messages handed to client.publish, in order
    call          \* a function applied on its own: name, argument, result

fsvars == <<fexists, finode, file, wrest, ops>>
cachevars == <<cache, pc, st, held, olddaily, start_pos, result>>
relayvars == <<rpc, renabled, rstop, rlast_size, rlast_inode, rstat, rclient, published>>
vars == <<fsvars, cachevars, hist, relayvars, call>>

Threads == {1, 2}
Inodes == 1..MaxInode
NoInode == 0        \* "inode": None

\* The initial SUMMARY_CACHE, and what reset_summary_cache() stores.
EmptyCache ==
    [daily_state |-> EmptyDaily, summary |-> <<>>, position |-> 0,
     inode |-> NoInode, size |-> 0, build_ts |-> "None"]

NoStat == [ino |-> NoInode, size |-> 0]
NoResult == [kind |-> "none", val |-> <<>>]
Returned(summary) == [kind |-> "returned", val |-> summary]
Raised == [kind |-> "raised", val |-> <<>>]

InitFs ==
    /\ fexists \in BOOLEAN
    /\ finode = 1
    /\ file = <<>>
    /\ wrest = <<>>
    /\ ops = 0

InitCache ==
    /\ cache = EmptyCache
    /\ pc = [t \in Threads |-> "idle"]
    /\ st = [t \in Threads |-> NoStat]
    /\ held = [t \in Threads |-> "none"]
    /\ olddaily = [t \in Threads |-> EmptyDaily]
    /\ start_pos = [t \in Threads |-> 0]
    /\ result = [t \in Threads |-> NoResult]
    /\ hist = [undetected |-> FALSE, quiet |-> FALSE, same |-> FALSE,
               afterInv |-> FALSE, shorter |-> FALSE, afterAbsent |-> FALSE,
               rabsent |-> FALSE]

InitRelay ==
    /\ rpc = "run"
    /\ renabled = TRUE
    /\ rstop = FALSE
    /\ rlast_size = 0
    /\ rlast_inode = NoInode
    /\ rstat = NoStat
    /\ rclient = "None"
    /\ published = <<>>

\* No function is being applied on its own.
NoCall == [fn |-> "none", arg |-> None, ret |-> None, done |-> FALSE]

Init == InitFs /\ InitCache /\ InitRelay /\ call = NoCall

\* ----------------------------------------------------- the log file writer
Line(kind) == JsonText(kind) \o <<NL>>

\* The history after the file changed.
Touched(h) == [h EXCEPT !.quiet = FALSE, !.shorter = FALSE]

\* The writer appends one whole line with a single write.
WriterAppend(kind) ==
    /\ fexists /\ wrest = <<>>
    /\ Len(file) + Len(Line(kind)) <= MaxFile
    /\ file' = file \o Line(kind)
    /\ hist' = Touched(hist)
    /\ UNCHANGED <<fexists, finode, wrest, ops>>

\* The writer's write of a line reaches the file in two parts: first n
\* bytes of it, ...
WriterAppendPart(kind, n) ==
    /\ fexists /\ wrest = <<>>
    /\ n \in 1..Len(JsonText(kind))
    /\ Len(file) + Len(Line(kind)) <= MaxFile
    /\ file' = file \o SubSeq(Line(kind), 1, n)
    /\ wrest' = SubSeq(Line(kind), n + 1, Len(Line(kind)))
    /\ hist' = Touched(hist)
    /\ UNCHANGED <<fexists, finode, ops>>

\* ... then the rest, up to and including the newline.
WriterFinish ==
    /\ fexists /\ wrest # <<>>
    /\ file' = file \o wrest
    /\ wrest' = <<>>
    /\ hist' = Touched(hist)
    /\ UNCHANGED <<fexists, finode, ops>>

\* Rotation: the file at LOG_FILE is replaced by another one (rename), or
\* truncated and rewritten in place (ino = finode).  A new file may get any
\* inode number, that of an earlier file included.
FileReplace(content, ino) ==
    /\ fexists /\ ops < MaxOps
    /\ <<content, ino>> # <<file, finode>>
    /\ file' = content
    /\ finode' = ino
    /\ wrest' = <<>>
    /\ ops' = ops + 1
    /\ hist' = [hist EXCEPT !.undetected = TRUE, !.quiet = FALSE,
                            !.shorter = (Len(content) < Len(file)
                                         /\ \A t \in Threads : pc[t] = "idle")]
    /\ UNCHANGED fexists

FileRemove ==
    /\ fexists /\ ops < MaxOps
    /\ fexists' = FALSE
    /\ file' = <<>>
    /\ wrest' = <<>>
    /\ ops' = ops + 1
    /\ hist' = [Touched(hist) EXCEPT !.undetected = TRUE]
    /\ UNCHANGED finode

FileCreate(ino) ==
    /\ ~fexists
    /\ fexists' = TRUE
    /\ finode' = ino
    /\ file' = <<>>
    /\ hist' = Touched(hist)
    /\ UNCHANGED <<wrest, ops>>

\* ------------------------------------------------------ the summary cache
\* (mutant) the update leaves "position" out.
AfterResetKeepingPosition(c) ==
    [c EXCEPT !.daily_state = EmptyDaily, !.summary = <<>>,
              !.inode = NoInode, !.size = 0, !.build_ts = "None"]

\* SUMMARY_CACHE.update({...}) of reset_summary_cache(): every key is set
\* to its initial value.
AfterReset(c) ==
    [c EXCEPT !.daily_state = EmptyDaily, !.summary = <<>>, !.position = 0,
              !.inode = NoInode, !.size = 0, !.build_ts = "None"]

\* The threads' references when thread t makes the cache drop its dict.
HeldAfterReset(t) ==
    [u \in Threads |-> IF u # t /\ held[u] = "cache" THEN "old" ELSE held[u]]
OldAfterReset(t) ==
    [u \in Threads |->
        IF u # t /\ held[u] = "cache" THEN cache.daily_state ELSE olddaily[u]]

\* (mutant) the reset is left out.
ResetSummaryCacheSkipped(t) == UNCHANGED <<cache, held, olddaily>>

\* reset_summary_cache() run by thread t: the cache gets new, empty values.
\* The dict the cache referred to lives on in the threads whose local
\* `daily` still refers to it.  (With two threads such a dict is held by
\* one thread only: the thread that resets holds none at that point.)
ResetSummaryCache(t) ==
    /\ cache' = AfterReset(cache)
    /\ held' = HeldAfterReset(t)
    /\ olddaily' = OldAfterReset(t)

\* The history when a call returns.
AtReturn(h) ==
    [h EXCEPT !.afterInv = FALSE, !.shorter = FALSE, !.afterAbsent = FALSE]

\* Thread t returns `value` from build_daily_summary_from_file.
Return(t, value) ==
    /\ pc' = [pc EXCEPT ![t] = "idle"]
    /\ result' = [result EXCEPT ![t] = value]
    /\ st' = [st EXCEPT ![t] = NoStat]
    /\ start_pos' = [start_pos EXCEPT ![t] = 0]

\* A request thread enters build_daily_summary_from_file (GET /daily).
CacheCall(t) ==
    /\ pc[t] = "idle"
    /\ pc' = [pc EXCEPT ![t] = "exists"]
    /\ UNCHANGED <<fsvars, cache, st, held, olddaily, start_pos, result, hist>>

\* Lines 162-164: os.path.exists(LOG_FILE).
CacheExists(t) ==
    /\ pc[t] = "exists"
    /\ IF fexists
       THEN /\ pc' = [pc EXCEPT ![t] = "stat"]
            /\ UNCHANGED <<cache, st, held, olddaily, start_pos, result, hist>>
       ELSE /\ ResetSummaryCache(t)
            /\ Return(t, Returned(<<>>))
            /\ hist' = [AtReturn(hist) EXCEPT !.undetected = FALSE,
                                              !.afterAbsent = TRUE]
    /\ UNCHANGED fsvars

\* Lines 166-170: os.stat(LOG_FILE).
CacheStat(t) ==
    /\ pc[t] = "stat"
    /\ IF fexists
       THEN /\ st' = [st EXCEPT ![t] = [ino |-> finode, size |-> Len(file)]]
            /\ pc' = [pc EXCEPT ![t] = "check"]
            /\ hist' = [hist EXCEPT !.same = hist.quiet, !.quiet = TRUE]
            /\ UNCHANGED <<cache, held, olddaily, start_pos, result>>
       ELSE /\ ResetSummaryCache(t)
            /\ Return(t, Returned(<<>>))
            /\ hist' = [AtReturn(hist) EXCEPT !.undetected = FALSE,
                                              !.afterAbsent = TRUE]
    /\ UNCHANGED fsvars

\* Line 173: the file was rotated or truncated.
IsRotated(c, s) == c.inode # s.ino \/ s.size < c.size

\* (mutant) `<` where the code compares with `==`.
IsCacheHitBelow(c, s) == c.inode = s.ino /\ c.position < s.size /\ c.summary # <<>>

\* Lines 177-181: nothing to read, the cached summary is current.
IsCacheHit(c, s) == c.inode = s.ino /\ c.position = s.size /\ c.summary # <<>>

\* Lines 172-185: reset on rotation, return the cached summary on a hit,
\* else take the aggregator and the offset to read from.
CacheCheck(t) ==
    /\ pc[t] = "check"
    /\ LET rotated == IsRotated(cache, st[t])
           c1 == IF rotated THEN AfterReset(cache) ELSE cache
           held1 == IF rotated THEN HeldAfterReset(t) ELSE held
           old1 == IF rotated THEN OldAfterReset(t) ELSE olddaily
           hist1 == IF rotated THEN [hist EXCEPT !.undetected = FALSE] ELSE hist
       IN  /\ cache' = c1
           /\ olddaily' = old1
           /\ IF IsCacheHit(c1, st[t])
              THEN /\ Return(t, Returned(c1.summary))
                   /\ held' = held1
                   /\ hist' = AtReturn(hist1)
              ELSE /\ pc' = [pc EXCEPT ![t] = "read"]
                   /\ held' = [held1 EXCEPT ![t] = "cache"]
                   /\ start_pos' = [start_pos EXCEPT ![t] = c1.position]
                   /\ hist' = hist1
                   /\ UNCHANGED <<st, result>>
    /\ UNCHANGED fsvars

\* Lines 187-246: open the file (FileNotFoundError is not caught), seek,
\* merge every line up to the end of the file into `daily`, store tell().
\* A line that raises ends the call with the lines before it merged and
\* the position not stored.
CacheRead(t) ==
    /\ pc[t] = "read"
    /\ IF ~fexists
       THEN /\ Return(t, Raised)
            /\ held' = [held EXCEPT ![t] = "none"]
            /\ olddaily' = [olddaily EXCEPT ![t] = EmptyDaily]
            /\ hist' = AtReturn(hist)
            /\ UNCHANGED cache
       ELSE LET daily == IF held[t] = "cache" THEN cache.daily_state
                         ELSE olddaily[t]
                read == MergeLines(daily, ReadLinesFrom(file, start_pos[t]))
                c1 == IF held[t] = "cache"
                      THEN [cache EXCEPT !.daily_state = read.daily]
                      ELSE cache
                old1 == IF held[t] = "cache" THEN olddaily
                        ELSE [olddaily EXCEPT ![t] = read.daily]
            IN  IF read.raised
                THEN /\ cache' = c1
                     /\ Return(t, Raised)
                     /\ held' = [held EXCEPT ![t] = "none"]
                     /\ olddaily' = [olddaily EXCEPT ![t] = EmptyDaily]
                     /\ hist' = AtReturn(hist)
                ELSE /\ cache' = [c1 EXCEPT
                                    !.position = TellAtEof(file, start_pos[t])]
                     /\ olddaily' = old1
                     /\ pc' = [pc EXCEPT ![t] = "store"]
                     /\ UNCHANGED <<st, held, start_pos, result, hist>>
    /\ UNCHANGED fsvars

\* Lines 248-252: store size, inode, build time and the new summary, and
\* return it.
CacheStore(t) ==
    /\ pc[t] = "store"
    /\ LET daily == IF held[t] = "cache" THEN cache.daily_state
                    ELSE olddaily[t]
           summary == SummariesFromState(daily)
       IN  /\ cache' = [cache EXCEPT !.size = st[t].size, !.inode = st[t].ino,
                                     !.build_ts = "time", !.summary = summary]
           /\ Return(t, Returned(summary))
    /\ held' = [held EXCEPT ![t] = "none"]
    /\ olddaily' = [olddaily EXCEPT ![t] = EmptyDaily]
    /\ hist' = AtReturn(hist)
    /\ UNCHANGED fsvars

\* POST /rebuild-summaries: reset_summary_cache().
Invalidate(t) ==
    /\ pc[t] = "idle"
    /\ ResetSummaryCache(t)
    /\ hist' = [hist EXCEPT !.undetected = FALSE, !.quiet = FALSE,
                            !.afterInv = TRUE]
    /\ UNCHANGED <<fsvars, pc, st, start_pos, result>>

\* --------------------------------------------------------- the MQTT relay
True == [k |-> "bool", v |-> 1]
False == [k |-> "bool", v |-> 0]

\* Lines 118-121: `loss is not None and float(loss) < 100`, None when
\* float() raises TypeError or ValueError.
InternetUp(loss) ==
    IF loss = None THEN False
    ELSE IF PyFloat(loss) = None THEN None
    ELSE IF PyFloat(loss).v < 100 THEN True ELSE False

\* Lines 123-131: the status message of a decoded record.
StatusPayload(record) ==
    [timestamp |-> record.timestamp,
     target |-> PyOr(record.target, record.dst_host),
     loss_pct |-> record.loss_pct,
     rtt_avg_ms |-> record.rtt_avg_ms,
     internet_up |-> InternetUp(record.loss_pct)]

\* (mutant) tell() answers with the position after the line.
TellInLoopWorks(pos) == [raised |-> FALSE, pos |-> pos]

\* Line 109: handle.tell() inside `for line in handle`.  A text file that
\* is being iterated with next() has telling disabled: tell() raises
\* OSError, whatever the position.
TellInLoop(pos) == [raised |-> TRUE, pos |-> pos]

\* _connect(): a connected client, or None when paho is missing or the
\* broker cannot be reached.
Connect(net) == IF net = "up" THEN "connected" ELSE "None"

\* _publish(topic, payload) on relay state r = [last_size, client,
\* published]: connect if there is no client, give up without one, else
\* hand the message to client.publish; an exception of publish is caught.
Publish(r, net, topic, payload) ==
    LET client == IF r.client = "None" THEN Connect(net) ELSE r.client
    IN  IF client = "None" THEN [r EXCEPT !.client = client]
        ELSE IF net = "up" /\ Len(r.published) < MaxPublished
        THEN [r EXCEPT !.client = client,
                       !.published = Append(@, [topic |-> topic, payload |-> payload])]
        ELSE [r EXCEPT !.client = client]

RECURSIVE RelayLines(_, _, _, _)
\* Lines 105-132: the loop over the lines read from offset pos, on relay
\* state r; `raised` when an exception left the loop.
RelayLines(lines, pos, r, net) ==
    IF lines = <<>> THEN [r |-> r, raised |-> FALSE]
    ELSE LET line == Strip(Head(lines))
             end == pos + Len(Head(lines))
             tell == TellInLoop(end)
         IN  IF line = <<>> THEN RelayLines(Tail(lines), end, r, net)
             ELSE IF tell.raised THEN [r |-> r, raised |-> TRUE]
             ELSE LET r1 == Publish([r EXCEPT !.last_size = tell.pos], net,
                                    "measurements", line)
                      js == JsonLoads(line)
                  IN  IF js.res = "JSONDecodeError"
                      THEN RelayLines(Tail(lines), end, r1, net)
                      ELSE IF js.res = "value" THEN [r |-> r1, raised |-> TRUE]
                      ELSE RelayLines(Tail(lines), end,
                                      Publish(r1, net, "status", StatusPayload(js.rec)),
                                      net)

\* Lines 84-85: run() returns at once when the relay is not enabled.
RelayRun ==
    /\ rpc = "run"
    /\ rpc' = IF renabled THEN "while" ELSE "done"
    /\ UNCHANGED <<fsvars, hist, renabled, rstop, rlast_size, rlast_inode, rstat,
                   rclient, published>>

\* (mutant) the loop condition does not look at the stop event.
RelayWhileIgnoringStop ==
    /\ rpc = "while"
    /\ rpc' = "exists"
    /\ hist' = [hist EXCEPT !.rabsent = FALSE]
    /\ UNCHANGED <<fsvars, renabled, rstop, rlast_size, rlast_inode, rstat,
                   rclient, published>>

\* Line 87: the loop condition.
RelayWhile ==
    /\ rpc = "while"
    /\ rpc' = IF rstop THEN "done" ELSE "exists"
    /\ hist' = [hist EXCEPT !.rabsent = FALSE]
    /\ UNCHANGED <<fsvars, renabled, rstop, rlast_size, rlast_inode, rstat,
                   rclient, published>>

\* (mutant) the relay forgets the inode it saved.
RelayAbsentForgets ==
    /\ rpc' = "while"
    /\ rlast_inode' = NoInode
    /\ UNCHANGED <<rlast_size, rstat>>

\* Lines 89-90 and 94-96: the file is not there; sleep and poll again.
RelayAbsent ==
    /\ rpc' = "while"
    /\ UNCHANGED <<rlast_size, rlast_inode, rstat>>

\* Lines 88-90: LOG_PATH.exists().
RelayExists ==
    /\ rpc = "exists"
    /\ IF fexists
       THEN /\ rpc' = "stat"
            /\ UNCHANGED <<rlast_size, rlast_inode, rstat>>
       ELSE RelayAbsent
    /\ hist' = [hist EXCEPT !.rabsent = ~fexists]
    /\ UNCHANGED <<fsvars, renabled, rstop, rclient, published>>

\* Line 98: the file was rotated or truncated, by the relay's saved inode
\* and offset.
RelayIsRotated(last_inode, last_size, s) ==
    last_inode # s.ino \/ s.size < last_size

\* Lines 92-100: stat (FileNotFoundError: sleep and poll again), then the
\* rotation rule on the relay's saved inode and offset.
RelayStat ==
    /\ rpc = "stat"
    /\ IF ~fexists
       THEN RelayAbsent
       ELSE /\ rpc' = "read"
            /\ rstat' = [ino |-> finode, size |-> Len(file)]
            /\ IF RelayIsRotated(rlast_inode, rlast_size,
                                 [ino |-> finode, size |-> Len(file)])
               THEN rlast_size' = 0 /\ rlast_inode' = finode
               ELSE UNCHANGED <<rlast_size, rlast_inode>>
    /\ hist' = [hist EXCEPT !.rabsent = ~fexists]
    /\ UNCHANGED <<fsvars, renabled, rstop, rclient, published>>

\* Lines 102-138: open, seek to the saved offset, loop over the lines;
\* any exception (the open's included) is swallowed; sleep; next cycle.
RelayRead(net) ==
    /\ rpc = "read"
    /\ rpc' = "while"
    /\ rstat' = NoStat
    /\ IF ~fexists
       THEN UNCHANGED <<rlast_size, rclient, published>>
       ELSE LET out == RelayLines(ReadLinesFrom(file, rlast_size), rlast_size,
                                  [last_size |-> rlast_size, client |-> rclient,
                                   published |-> published], net)
            IN  /\ rlast_size' = out.r.last_size
                /\ rclient' = out.r.client
                /\ published' = out.r.published
    /\ UNCHANGED <<fsvars, hist, renabled, rstop, rlast_inode>>

\* stop(), called by main() when the server ends: set the stop event and
\* disconnect the client if there is one.
RelayStop ==
    /\ ~rstop
    /\ rstop' = TRUE
    /\ rclient' = IF rclient # "None" THEN "disconnected" ELSE rclient
    /\ UNCHANGED <<fsvars, hist, rpc, renabled, rlast_size, rlast_inode, rstat,
                   published>>

\* ------------------------------------------------------- specifications
\* The kinds of line the writer appends, whole or in two parts.
WriterKinds == {"r1", "bad"}
PartKinds == {"r1"}
ReplaceContents == {<<>>, Line("r2")}

\* A step of the writer leaves cache and relay alone, a step of a request
\* thread the relay, a step of the relay the cache.
OfWriter(A) == A /\ UNCHANGED <<cachevars, relayvars, call>>
OfCache(A) == A /\ UNCHANGED <<relayvars, call>>
\* (mutant) the relay keeps its offset in the cache's cursor.
OfRelaySharingCursor(A) ==
    /\ A
    /\ cache' = [cache EXCEPT !.position = rlast_size']
    /\ UNCHANGED <<pc, st, held, olddaily, start_pos, result, call>>

OfRelay(A) == A /\ UNCHANGED <<cachevars, call>>

\* The web server as main() runs it: HTTPServer handles one request at a
\* time, so one thread calls into the cache; the writer runs alongside.
Next ==
    \/ \E kind \in WriterKinds : OfWriter(WriterAppend(kind))
    \/ \E kind \in PartKinds : \E n \in 1..2 : OfWriter(WriterAppendPart(kind, n))
    \/ OfWriter(WriterFinish)
    \/ \E content \in ReplaceContents : \E ino \in Inodes :
            OfWriter(FileReplace(content, ino))
    \/ OfWriter(FileRemove)
    \/ \E ino \in Inodes : OfWriter(FileCreate(ino))
    \/ OfCache(CacheCall(1))
    \/ OfCache(CacheExists(1))
    \/ OfCache(CacheStat(1))
    \/ OfCache(CacheCheck(1))
    \/ OfCache(CacheRead(1))
    \/ OfCache(CacheStore(1))
    \/ OfCache(Invalidate(1))

Spec == Init /\ [][Next]_vars

\* Append-only operation: the file exists from the start, the writer adds
\* whole lines only, nothing rotates, and one thread polls the cache.
MaxLines == 2       \* lines the writer appends under SpecAppend

AppendKinds == {"r1", "r2", "r3", "nots", "bad"}

NumLines(bytes) == Cardinality({i \in 1..Len(bytes) : bytes[i] = NL})

AppendLine(kind) ==
    /\ fexists /\ wrest = <<>>
    /\ NumLines(file) < MaxLines
    /\ file' = file \o Line(kind)
    /\ hist' = Touched(hist)
    /\ UNCHANGED <<fexists, finode, wrest, ops>>

InitAppend == Init /\ fexists

NextAppend ==
    \/ \E kind \in AppendKinds : OfWriter(AppendLine(kind))
    \/ OfCache(CacheCall(1))
    \/ OfCache(CacheExists(1))
    \/ OfCache(CacheStat(1))
    \/ OfCache(CacheCheck(1))
    \/ OfCache(CacheRead(1))
    \/ OfCache(CacheStore(1))

SpecAppend == InitAppend /\ [][NextAppend]_vars

\* The relay thread, the writer, and the main thread that stops the relay.
RelayStep ==
    \/ RelayRun
    \/ RelayWhile
    \/ RelayExists
    \/ RelayStat
    \/ \E net \in {"up", "down"} : RelayRead(net)

NextRelay ==
    \/ \E kind \in WriterKinds : OfWriter(WriterAppend(kind))
    \/ \E kind \in PartKinds : \E n \in 1..2 : OfWriter(WriterAppendPart(kind, n))
    \/ OfWriter(WriterFinish)
    \/ \E content \in ReplaceContents : \E ino \in Inodes :
            OfWriter(FileReplace(content, ino))
    \/ OfWriter(FileRemove)
    \/ \E ino \in Inodes : OfWriter(FileCreate(ino))
    \/ OfRelay(RelayRun)
    \/ OfRelay(RelayWhile)
    \/ OfRelay(RelayExists)
    \/ OfRelay(RelayStat)
    \/ \E net \in {"up", "down"} : OfRelay(RelayRead(net))
    \/ OfRelay(RelayStop)

SpecRelay == Init /\ [][NextRelay]_vars

\* The relay is a thread of its own: the scheduler lets it take its next
\* step again and again, and the broker does not stay out of reach for
\* ever.  Nothing is assumed of the writer or of stop().
FairSpecRelay ==
    /\ SpecRelay
    /\ WF_vars(OfRelay(RelayStep))
    /\ SF_vars(OfRelay(RelayRead("up")))

\* Two request threads in the cache at once, as under a threading server;
\* the file grows by whole lines while no call is in progress.
AppendLineQuiet(kind) ==
    /\ \A t \in Threads : pc[t] = "idle"
    /\ AppendLine(kind)

ConcKinds == {"r1", "r2"}

NextConc ==
    \/ \E kind \in ConcKinds : OfWriter(AppendLineQuiet(kind))
    \/ \E t \in Threads : OfCache(CacheCall(t))
    \/ \E t \in Threads : OfCache(CacheExists(t))
    \/ \E t \in Threads : OfCache(CacheStat(t))
    \/ \E t \in Threads : OfCache(CacheCheck(t))
    \/ \E t \in Threads : OfCache(CacheRead(t))
    \/ \E t \in Threads : OfCache(CacheStore(t))
    \/ \E t \in Threads : OfCache(Invalidate(t))

SpecConc == InitAppend /\ [][NextConc]_vars

\* The status message on its own: lines 116-131 applied to one decoded
\* record, whatever the loop did before.
LossValues == {None, Num(0), Num(45), Num(100), Str(<<4, 5>>), Str(<<65>>)}

StatusRecords ==
    {[Decoded("r1") EXCEPT !.timestamp = ts, !.target = tgt, !.dst_host = dst,
                           !.loss_pct = loss, !.rtt_avg_ms = rtt] :
        ts \in {None, Str(<<1, CharT, 1>>)}, tgt \in {None, Str(<<65>>)},
        dst \in {None, Str(<<66>>)}, loss \in LossValues,
        rtt \in {None, Num(12)}}

InitStatus ==
    /\ InitFs /\ InitCache /\ InitRelay
    /\ \E record \in StatusRecords :
            call = [fn |-> "status", arg |-> record, ret |-> None, done |-> FALSE]

\* json.dumps({...}) of lines 123-131 for the record.
RelayStatus ==
    /\ call.fn = "status" /\ ~call.done
    /\ call' = [call EXCEPT !.ret = StatusPayload(call.arg), !.done = TRUE]
    /\ UNCHANGED <<fsvars, cachevars, hist, relayvars>>

NextStatus == RelayStatus

SpecStatus == InitStatus /\ [][NextStatus]_vars

\* Both tailers on a log that only grows, by whole lines of every kind,
\* the malformed ones included: one request thread polls the cache, the
\* relay polls on its own.
TailKinds == {"r1", "r3", "nots", "arr", "bad", "blank"}

MaxProbes == 3      \* no further call once a day counts this many probes

\* A read that fails after it merged lines leaves them merged and the
\* offset where it was: the next call merges them again, and the counters
\* of a day grow with every call.  The calls end at MaxProbes.
CacheCallBounded ==
    /\ \A day \in DOMAIN cache.daily_state :
            cache.daily_state[day].total_probes < MaxProbes
    /\ CacheCall(1)

NextTail ==
    \/ \E kind \in TailKinds : OfWriter(AppendLine(kind))
    \/ OfCache(CacheCallBounded)
    \/ OfCache(CacheExists(1))
    \/ OfCache(CacheStat(1))
    \/ OfCache(CacheCheck(1))
    \/ OfCache(CacheRead(1))
    \/ OfCache(CacheStore(1))
    \/ OfRelay(RelayRun)
    \/ OfRelay(RelayWhile)
    \/ OfRelay(RelayExists)
    \/ OfRelay(RelayStat)
    \/ \E net \in {"up", "down"} : OfRelay(RelayRead(net))

SpecTail == InitAppend /\ [][NextTail]_vars

\* Line 93 where the file system answers the stat with an error other
\* than "not found" (PermissionError, NotADirectoryError, an I/O error):
\* only FileNotFoundError is caught at line 94, so the exception leaves
\* run() and the relay thread ends.
RelayStatFails ==
    /\ rpc = "stat"
    /\ rpc' = "raised"
    /\ UNCHANGED <<fsvars, hist, renabled, rstop, rlast_size, rlast_inode, rstat,
                   rclient, published>>

\* The relay on a file system whose stat can fail in any way.
NextRelayErr ==
    \/ NextRelay
    \/ OfRelay(RelayStatFails)

SpecRelayErr == Init /\ [][NextRelayErr]_vars

\* ------------------------------------------------------------------
\* The aggregation of lines 200-244 and _summaries_from_state applied to
\* sequences of decoded records, one record per step.

MaxRecords == 3

Dash == 45
Space == 32
\* "2024-06-01" and "2024-06-02".
Date1 == <<2, 0, 2, 4, Dash, 0, 6, Dash, 0, 1>>
Date2 == <<2, 0, 2, 4, Dash, 0, 6, Dash, 0, 2>>
\* "<date>T0<h>", an ISO date-time cut after the hour.
Iso(date, h) == date \o <<CharT, 0, h>>
\* "2024-06-01 01": date and time separated by a space.
SpaceStamp == Date1 \o <<Space, 0, 1>>

BaseRecord ==
    [timestamp |-> Str(Iso(Date1, 1)), target |-> Str(<<65>>), dst_host |-> None,
     public_ip |-> Str(<<80>>), sent |-> Num(5), received |-> Num(5),
     loss_pct |-> Num(0), rtt_avg_ms |-> Num(12)]

\* A record of the second day without loss and RTT.
BareRecord ==
    [BaseRecord EXCEPT !.timestamp = Str(Iso(Date2, 2)),
                       !.loss_pct = None, !.rtt_avg_ms = None]

\* The decoded records the aggregation is applied to: the base record and
\* the records that differ from it in one group of fields.
AggRecords ==
    {BaseRecord, BareRecord}
    \cup {[BaseRecord EXCEPT !.loss_pct = x] :
             x \in {None, Num(50), Num(100), Str(<<5, 0>>)}}
    \cup {[BaseRecord EXCEPT !.rtt_avg_ms = x] :
             x \in {None, Num(18), Str(<<1, 8>>), Str(<<65>>)}}
    \cup {[BaseRecord EXCEPT !.timestamp = x] :
             x \in {Str(Iso(Date2, 1)), Str(SpaceStamp), None}}
    \cup {[BaseRecord EXCEPT !.target = x[1], !.dst_host = x[2], !.public_ip = x[3]] :
             x \in {<<None, Str(<<66>>), Str(<<81>>)>>,
                    <<Str(<<>>), Str(<<66>>), None>>,
                    <<None, None, Str(<<80>>)>>}}

SeqsUpTo(S, n) == UNION {[1..k -> S] : k \in 0..n}

InitAggregate ==
    /\ InitFs /\ InitCache /\ InitRelay
    /\ fexists
    /\ \E recs \in SeqsUpTo(AggRecords, MaxRecords) :
          call = [fn |-> "aggregate", arg |-> recs,
                  ret |-> [daily |-> EmptyDaily, n |-> 0, summary |-> <<>>],
                  done |-> FALSE]

\* One turn of the loop body for the next decoded record.
MergeNext ==
    /\ call.fn = "aggregate" /\ ~call.done
    /\ call.ret.n < Len(call.arg)
    /\ call' = [call EXCEPT
                  !.ret.daily = MergeRecord(@, call.arg[call.ret.n + 1]),
                  !.ret.n = @ + 1]
    /\ UNCHANGED <<fsvars, cachevars, hist, relayvars>>

\* _summaries_from_state on the state built from all the records.
Summarise ==
    /\ call.fn = "aggregate" /\ ~call.done
    /\ call.ret.n = Len(call.arg)
    /\ call' = [call EXCEPT
                  !.ret.summary = SummariesFromState(call.ret.daily),
                  !.done = TRUE]
    /\ UNCHANGED <<fsvars, cachevars, hist, relayvars>>

NextAggregate ==
    \/ MergeNext
    \/ Summarise

SpecAggregate == InitAggregate /\ [][NextAggregate]_vars

\* ------------------------------------------------------------------
\* read_recent_records and read_records_for_day applied to the files a
\* writer can build line by line.

MaxReadLines == 3
MaxTail == 2

ReaderKinds == {"r1", "r2", "r3", "nots", "bad", "blank"}

\* The days asked for: none, each of the two days of the records, and a
\* day no record has.
ReaderDays == {<<>>, <<1>>, <<2>>, <<3>>}

\* lines[-n:]: the last n elements, all of them when n is 0.
LastN(s, n) ==
    IF n = 0 \/ n >= Len(s) THEN s ELSE SubSeq(s, Len(s) - n + 1, Len(s))

RECURSIVE DecodeLines(_)
\* Lines 120-129: blank lines and lines json.loads rejects are skipped,
\* every decoded value is appended.
DecodeLines(lines) ==
    IF lines = <<>> THEN <<>>
    ELSE LET text == Strip(Head(lines))
             js == JsonLoads(text)
             rest == DecodeLines(Tail(lines))
         IN  IF text = <<>> \/ js.res = "JSONDecodeError" THEN rest
             ELSE <<IF js.res = "object" THEN js.rec ELSE js>> \o rest

\* read_recent_records() with MAX_RECORDS = n on a file.
ReadRecentRecords(exists, bytes, n) ==
    IF ~exists THEN <<>>
    ELSE DecodeLines(LastN(LinesOf(bytes), n))

\* str.startswith.
StartsWith(s, prefix) ==
    /\ Len(prefix) <= Len(s)
    /\ SubSeq(s, 1, Len(prefix)) = prefix

RECURSIVE SelectForDay(_, _)
\* Lines 139-151: the records appended by the loop, or the exception a
\* decoded value without .get raises.
SelectForDay(lines, day) ==
    IF lines = <<>> THEN [raised |-> FALSE, records |-> <<>>]
    ELSE LET text == Strip(Head(lines))
             js == JsonLoads(text)
             rest == SelectForDay(Tail(lines), day)
         IN  IF text = <<>> \/ js.res = "JSONDecodeError" THEN rest
             ELSE IF js.res # "object" THEN [raised |-> TRUE, records |-> <<>>]
             ELSE IF ~StartsWith(PyOr(js.rec.timestamp, Str(<<>>)).v, day) THEN rest
             ELSE [raised |-> rest.raised,
                   records |-> IF rest.raised THEN <<>>
                               ELSE <<js.rec>> \o rest.records]

\* (mutant) the records are left in file order.
Unsorted(recs) == recs

RECURSIVE SortByTimestamp(_)
\* Line 153: list.sort by timestamp, stable.
SortByTimestamp(recs) ==
    IF recs = <<>> THEN <<>>
    ELSE LET n == Len(recs)
             init == SortByTimestamp(SubSeq(recs, 1, n - 1))
             last == recs[n]
             keep == {i \in 1..Len(init) :
                         ~LexLess(last.timestamp.v, init[i].timestamp.v)}
             k == Cardinality(keep)
         IN  SubSeq(init, 1, k) \o <<last>> \o SubSeq(init, k + 1, Len(init))

\* read_records_for_day(day) on a file.
ReadRecordsForDay(exists, bytes, day) ==
    IF ~exists \/ day = <<>> THEN [raised |-> FALSE, records |-> <<>>]
    ELSE LET sel == SelectForDay(LinesOf(bytes), day)
         IN  IF sel.raised THEN sel
             ELSE [raised |-> FALSE, records |-> SortByTimestamp(sel.records)]

\* The writer appends one complete line.
ReaderAppend(kind) ==
    /\ fexists /\ wrest = <<>>
    /\ NumLines(file) < MaxReadLines
    /\ file' = file \o Line(kind)
    /\ hist' = Touched(hist)
    /\ UNCHANGED <<fexists, finode, wrest, ops>>

\* GET /data with MAX_RECORDS = n.
TailCall(n) ==
    /\ call' = [fn |-> "tail",
                arg |-> [exists |-> fexists, bytes |-> file, n |-> n],
                ret |-> ReadRecentRecords(fexists, file, n),
                done |-> TRUE]
    /\ UNCHANGED <<fsvars, cachevars, hist, relayvars>>

\* GET /day?date=day.
DayCall(day) ==
    /\ call' = [fn |-> "forDay",
                arg |-> [exists |-> fexists, bytes |-> file, day |-> day],
                ret |-> ReadRecordsForDay(fexists, file, day),
                done |-> TRUE]
    /\ UNCHANGED <<fsvars, cachevars, hist, relayvars>>

NextReaders ==
    \/ \E kind \in ReaderKinds : OfWriter(ReaderAppend(kind))
    \/ \E n \in 1..MaxTail : TailCall(n)
    \/ \E day \in ReaderDays : DayCall(day)

SpecReaders == Init /\ [][NextReaders]_vars

\* ------------------------------------------------------------------
\* The whole process: the request thread serving /daily, /data, /day and
\* invalidations, and the relay thread, over a log the writer appends to.
ProcessKinds == {"r1", "r3"}

NextProcess ==
    \/ \E kind \in ProcessKinds : OfWriter(AppendLine(kind))
    \/ OfCache(CacheCall(1))
    \/ OfCache(CacheExists(1))
    \/ OfCache(CacheStat(1))
    \/ OfCache(CacheCheck(1))
    \/ OfCache(CacheRead(1))
    \/ OfCache(CacheStore(1))
    \/ OfCache(Invalidate(1))
    \/ OfRelay(RelayRun)
    \/ OfRelay(RelayWhile)
    \/ OfRelay(RelayExists)
    \/ OfRelay(RelayStat)
    \/ \E net \in {"up", "down"} : OfRelay(RelayRead(net))
    \/ TailCall(1)
    \/ DayCall(<<1>>)

SpecProcess == InitAppend /\ [][NextProcess]_vars

\* ------------------------------------------------------------------
\* The configuration file, read_config and POST /config.  A text is a
\* sequence of symbols: the key words of the file, "=", newline, space,
\* digits and a letter.

MaxDigits == 2

CfgNL == "\n"
CfgSpace == " "
CfgEq == "="
CfgDigits == {"0", "3", "4", "5"}

\* The module's environment defaults (lines 21-23), as the test sets them.
ENV_TARGETS == <<>>
ENV_TARGET_HOST == <<"8">>
ENV_INTERVAL == <<"3", "0">>

RECURSIVE CfgStrip(_)
\* str.strip(): spaces and newlines taken off both ends.
CfgStrip(s) ==
    IF s = <<>> THEN s
    ELSE IF Head(s) \in {CfgSpace, CfgNL} THEN CfgStrip(Tail(s))
    ELSE IF s[Len(s)] \in {CfgSpace, CfgNL} THEN CfgStrip(SubSeq(s, 1, Len(s) - 1))
    ELSE s

\* str.isdigit().
IsDigit(s) == s # <<>> /\ \A i \in 1..Len(s) : s[i] \in CfgDigits

RECURSIVE CfgLinesOf(_)
\* Iterating the configuration file: the text cut after every newline.
CfgLinesOf(text) ==
    IF text = <<>> THEN <<>>
    ELSE IF \E i \in 1..Len(text) : text[i] = CfgNL
    THEN LET i == CHOOSE j \in 1..Len(text) :
                    text[j] = CfgNL /\ \A h \in 1..(j - 1) : text[h] # CfgNL
         IN  <<SubSeq(text, 1, i)>> \o CfgLinesOf(SubSeq(text, i + 1, Len(text)))
    ELSE <<text>>

\* line.split("=", 1) of a line that holds "=", both parts stripped.
CfgSplit(line) ==
    LET i == CHOOSE j \in 1..Len(line) :
                line[j] = CfgEq /\ \A h \in 1..(j - 1) : line[h] # CfgEq
    IN  [k |-> CfgStrip(SubSeq(line, 1, i - 1)),
         v |-> CfgStrip(SubSeq(line, i + 1, Len(line)))]

RECURSIVE CfgScan(_, _)
\* Lines 266-276: the loop over the lines; the last TARGETS and the last
\* INTERVAL_SECONDS line win, every other key is passed over.
CfgScan(lines, acc) ==
    IF lines = <<>> THEN acc
    ELSE LET line == CfgStrip(Head(lines))
         IN  IF line = <<>> \/ ~(\E i \in 1..Len(line) : line[i] = CfgEq)
             THEN CfgScan(Tail(lines), acc)
             ELSE LET kv == CfgSplit(line)
                  IN  IF kv.k = <<"TARGETS">>
                      THEN CfgScan(Tail(lines), [acc EXCEPT !.targets = kv.v])
                      ELSE IF kv.k = <<"INTERVAL_SECONDS">>
                      THEN CfgScan(Tail(lines), [acc EXCEPT !.interval = kv.v])
                      ELSE CfgScan(Tail(lines), acc)

\* read_config(): the pair (targets_display, interval) of line 288.
ReadConfig(exists, text) ==
    LET env == [targets |-> ENV_TARGETS, interval |-> ENV_INTERVAL]
        got == IF exists THEN CfgScan(CfgLinesOf(text), env) ELSE env
        targets_display ==
            IF got.targets = <<>>
            THEN (IF ENV_TARGETS # <<>> THEN ENV_TARGETS ELSE ENV_TARGET_HOST)
            ELSE got.targets
        interval ==
            IF got.interval = <<>>
            THEN (IF ENV_INTERVAL # <<>> THEN ENV_INTERVAL ELSE <<"3", "0">>)
            ELSE got.interval
    IN  [type |-> "tuple", items |-> <<targets_display, interval>>]

\* Lines 1605-1621: the file POST /config leaves for the two strings of
\* the request.
WriteConfig(targets_raw, interval_raw) ==
    LET targets == CfgStrip(targets_raw)
        stripped == CfgStrip(interval_raw)
        interval == IF stripped # <<>> /\ ~IsDigit(stripped) THEN <<>> ELSE stripped
        lines == (IF targets # <<>>
                  THEN <<"TARGETS", CfgEq>> \o targets \o <<CfgNL>> ELSE <<>>)
                 \o (IF interval # <<>>
                     THEN <<"INTERVAL_SECONDS", CfgEq>> \o interval \o <<CfgNL>>
                     ELSE <<>>)
    IN  [exists |-> lines # <<>>, text |-> lines]

\* "KEY=value\n".
CfgLine(key, value) == <<key, CfgEq>> \o value \o <<CfgNL>>

\* The configuration file of the test: all six keys set.
FullConfig ==
    CfgLine("TARGETS", <<"x", CfgEq, "9">>) \o CfgLine("INTERVAL_SECONDS", <<"4", "5">>)
    \o CfgLine("ENABLE_MTR", <<"1">>) \o CfgLine("MTR_CYCLES", <<"3">>)
    \o CfgLine("MTR_MAX_HOPS", <<"2", "0">>)
    \o CfgLine("MTR_TIMEOUT_SECONDS", <<"8">>)

\* The files the process can find at start: none, an empty one, files
\* written by hand.
ConfigFiles ==
    {[exists |-> FALSE, text |-> <<>>],
     [exists |-> TRUE, text |-> <<>>],
     [exists |-> TRUE, text |-> FullConfig],
     [exists |-> TRUE, text |-> CfgLine("ENABLE_MTR", <<"1">>)],
     [exists |-> TRUE, text |-> CfgLine("INTERVAL_SECONDS", <<"4", "5">>)]}

DigitTexts == UNION {[1..k -> CfgDigits] : k \in 1..MaxDigits}

\* The targets strings of a request: none, names with and without blanks
\* around them, and strings that hold a newline.
TargetInputs ==
    {<<>>, <<CfgSpace>>, <<"x">>, <<CfgSpace, "x", CfgNL>>, <<"x", CfgEq, "9">>,
     <<"x", CfgNL, "x">>,
     <<"x", CfgNL, "INTERVAL_SECONDS", CfgEq, "x">>,
     <<"x", CfgNL, "TARGETS", CfgEq, "x">>}

\* The interval_seconds strings of a request.
IntervalInputs ==
    DigitTexts
    \cup {<<>>, <<"x">>, <<"4", "x">>, <<CfgSpace, "4", CfgNL>>, <<"4", CfgSpace, "5">>,
          <<"4", CfgNL, "5">>}

NoReply == [type |-> "none", items |-> <<>>]

InitConfig ==
    /\ InitFs /\ InitCache /\ InitRelay
    /\ fexists
    /\ \E cfg \in ConfigFiles :
          call = [fn |-> "config",
                  arg |-> [posted |-> FALSE, targets |-> <<>>, interval |-> <<>>],
                  ret |-> [exists |-> cfg.exists, text |-> cfg.text,
                           reply |-> NoReply],
                  done |-> FALSE]

\* do_POST for /config with a JSON body holding the two strings.
ConfigPost(targets_raw, interval_raw) ==
    /\ call.fn = "config"
    /\ LET cfg == WriteConfig(targets_raw, interval_raw)
       IN  call' = [fn |-> "config",
                    arg |-> [posted |-> TRUE, targets |-> targets_raw,
                             interval |-> interval_raw],
                    ret |-> [exists |-> cfg.exists, text |-> cfg.text,
                             reply |-> ReadConfig(cfg.exists, cfg.text)],
                    done |-> TRUE]
    /\ UNCHANGED <<fsvars, cachevars, hist, relayvars>>

\* A caller of read_config (the dashboard of line 357, the test).
ConfigRead ==
    /\ call.fn = "config"
    /\ call' = [call EXCEPT
                  !.ret.reply = ReadConfig(call.ret.exists, call.ret.text),
                  !.done = TRUE]
    /\ UNCHANGED <<fsvars, cachevars, hist, relayvars>>

NextConfig ==
    \/ \E t \in TargetInputs : \E i \in IntervalInputs : ConfigPost(t, i)
    \/ ConfigRead

SpecConfig == InitConfig /\ [][NextConfig]_vars

\* ------------------------------------------------------------------
\* The RTT statistics of one day in floating point.  Python's float is a
\* binary format that rounds every result to the nearest value it has,
\* ties to even; the model keeps that rule on a mantissa of FloatBits
\* bits.  A value is the exact fraction num/den it stands for.

FloatBits == 4
MaxSamples == 3
\* Exponents tried when a value is scaled to the mantissa.
MaxExponent == 8

RECURSIVE Pow2(_)
Pow2(k) == IF k = 0 THEN 1 ELSE 2 * Pow2(k - 1)

\* num/den divided by 2^e.
Scaled(num, den, e) ==
    IF e >= 0 THEN [num |-> num, den |-> den * Pow2(e)]
    ELSE [num |-> num * Pow2(0 - e), den |-> den]

\* The integer nearest to num/den, the even one of two equally near.
RoundHalfEven(num, den) ==
    LET low == num \div den
        twice == 2 * (num % den)
    IN  IF twice > den \/ (twice = den /\ low % 2 = 1) THEN low + 1 ELSE low

\* The value of the format nearest to the fraction num/den >= 0.
Fl(num, den) ==
    IF num = 0 THEN Quot(0, 1)
    ELSE LET e == CHOOSE x \in (0 - MaxExponent)..MaxExponent :
                      /\ Pow2(FloatBits - 1) * Scaled(num, den, x).den
                            <= Scaled(num, den, x).num
                      /\ Scaled(num, den, x).num
                            < Pow2(FloatBits) * Scaled(num, den, x).den
             q == Scaled(num, den, e)
             m == RoundHalfEven(q.num, q.den)
         IN  IF e >= 0 THEN Quot(m * Pow2(e), 1) ELSE Quot(m, Pow2(0 - e))

\* a + b and a / n as the format computes them.
FlAdd(a, b) == Fl(a.num * b.den + b.num * a.den, a.den * b.den)
FlDiv(a, n) == Fl(a.num, a.den * n)

\* a < b for two values.
FlLess(a, b) == a.num * b.den < b.num * a.den

\* The rtt_avg_ms of the records, as the decimal numbers of the log:
\* 0.1, 0.7, 0.9, 12.5 and 18.
RttDecimals ==
    {[num |-> 1, den |-> 10], [num |-> 7, den |-> 10], [num |-> 9, den |-> 10],
     [num |-> 25, den |-> 2], [num |-> 18, den |-> 1]}

NoRtt == [rtt_sum |-> Quot(0, 1), rtt_count |-> 0, rtt_min |-> None, rtt_max |-> None]

\* Lines 226-237 in floating point: float(rtt) and the update of the four
\* RTT fields of the day.
FloatCountRtt(d, rtt) ==
    LET rtt_val == Fl(rtt.num, rtt.den)
    IN  [rtt_sum |-> FlAdd(d.rtt_sum, rtt_val),
         rtt_count |-> d.rtt_count + 1,
         rtt_min |-> IF d.rtt_min = None \/ FlLess(rtt_val, d.rtt_min)
                     THEN rtt_val ELSE d.rtt_min,
         rtt_max |-> IF d.rtt_max = None \/ FlLess(d.rtt_max, rtt_val)
                     THEN rtt_val ELSE d.rtt_max]

\* Lines 84-87 in floating point.
FloatAvgRtt(d) ==
    IF d.rtt_count > 0 THEN FlDiv(d.rtt_sum, d.rtt_count) ELSE None

InitFloat ==
    /\ InitFs /\ InitCache /\ InitRelay
    /\ fexists
    /\ \E rtts \in SeqsUpTo(RttDecimals, MaxSamples) :
          call = [fn |-> "rtt", arg |-> rtts,
                  ret |-> [d |-> NoRtt, n |-> 0, avg_rtt_ms |-> None],
                  done |-> FALSE]

\* One turn of the loop for the next record of the day.
FloatMerge ==
    /\ call.fn = "rtt" /\ ~call.done
    /\ call.ret.n < Len(call.arg)
    /\ call' = [call EXCEPT
                  !.ret.d = FloatCountRtt(@, call.arg[call.ret.n + 1]),
                  !.ret.n = @ + 1]
    /\ UNCHANGED <<fsvars, cachevars, hist, relayvars>>

\* The row's avg_rtt_ms.
FloatSummarise ==
    /\ call.fn = "rtt" /\ ~call.done
    /\ call.ret.n = Len(call.arg)
    /\ call' = [call EXCEPT !.ret.avg_rtt_ms = FloatAvgRtt(call.ret.d),
                            !.done = TRUE]
    /\ UNCHANGED <<fsvars, cachevars, hist, relayvars>>

NextFloat ==
    \/ FloatMerge
    \/ FloatSummarise

SpecFloat == InitFloat /\ [][NextFloat]_vars

\* ------------------------------------------------------------------
\* The 'Internet Up' binary sensor of the home-automation component next
\* to the relay's status message, on the records /data has answered.

MaxLatest == 2

\* The records of a /data answer: one per value of loss_pct, and the
\* empty object.
EmptyRecord ==
    [timestamp |-> None, target |-> None, dst_host |-> None, public_ip |-> None,
     sent |-> None, received |-> None, loss_pct |-> None, rtt_avg_ms |-> None]

SensorRecords ==
    {[Decoded("r1") EXCEPT !.loss_pct = loss] : loss \in LossValues}
    \cup {EmptyRecord}

\* coordinator.latest_record: the last record of the answer, None when
\* there is no answer or it is empty.
LatestRecord(latest) == IF latest = <<>> THEN None ELSE latest[Len(latest)]

\* ConnectivityOnlineBinarySensor.is_on.  An object without any field is
\* the empty dict, which `not record` takes for no record.
IsOn(latest) ==
    LET record == LatestRecord(latest)
    IN  IF record = None \/ record = EmptyRecord THEN None
        ELSE IF PyFloat(record.loss_pct) = None THEN None
        ELSE IF PyFloat(record.loss_pct).v < 100 THEN True ELSE False

Unset == [set |-> FALSE, value |-> None]

InitSensor ==
    /\ InitFs /\ InitCache /\ InitRelay
    /\ fexists
    /\ \E latest \in SeqsUpTo(SensorRecords, MaxLatest) :
          call = [fn |-> "sensor", arg |-> latest,
                  ret |-> [sensor |-> Unset, relay |-> Unset],
                  done |-> FALSE]

\* The sensor's state is read after an update of the coordinator.
SensorIsOn ==
    /\ call.fn = "sensor" /\ ~call.ret.sensor.set
    /\ call' = [call EXCEPT
                  !.ret.sensor = [set |-> TRUE, value |-> IsOn(call.arg)],
                  !.done = call.ret.relay.set]
    /\ UNCHANGED <<fsvars, cachevars, hist, relayvars>>

\* The relay derives internet_up for the line of the latest record.
RelayInternetUp ==
    /\ call.fn = "sensor" /\ ~call.ret.relay.set
    /\ call.arg # <<>>
    /\ call' = [call EXCEPT
                  !.ret.relay =
                      [set |-> TRUE,
                       value |-> StatusPayload(LatestRecord(call.arg)).internet_up],
                  !.done = call.ret.sensor.set]
    /\ UNCHANGED <<fsvars, cachevars, hist, relayvars>>

NextSensor ==
    \/ SensorIsOn
    \/ RelayInternetUp

SpecSensor == InitSensor /\ [][NextSensor]_vars

\* ------------------------------------------------------------ properties
\* Steps of the request thread of Spec.
ReadStep == pc[1] = "read" /\ pc'[1] = "store"
StoreStep == pc[1] = "store" /\ pc'[1] = "idle"
CheckStep == pc[1] = "check" /\ pc'[1] # "check"
ReturnStep == pc[1] # "idle" /\ pc'[1] = "idle"

\* C1: whenever get_snapshot() has read the file and every rotation so far
\* was detected, the aggregator its snapshot is computed from counts every
\* aggregable line of the file exactly once: it equals the aggregator of a
\* single pass over the whole file.
C1_EveryLineOnce ==
    [][(ReadStep /\ ~hist.undetected)
            => cache'.daily_state = FreshDaily(file)]_vars

\* C2: the read offset a get_snapshot() call stores is 0 or lies just past
\* a newline of the file it read.
C2_OffsetAfterNewline ==
    [][ReadStep
            => \/ cache'.position = 0
               \/ /\ cache'.position <= Len(file)
                  /\ file[cache'.position] = NL]_vars

\* C3: when the file was replaced by a shorter one, the next
\* get_snapshot() returns the snapshot of the new file alone.
C3_ShorterFileOnly ==
    [][(hist.shorter /\ ReturnStep)
            => result'[1] = Returned(FreshSummary(file))]_vars

\* C4: without rotation, whenever the cache has caught up with the file
\* after any number of polls, its snapshot is the snapshot of one pass over
\* the whole file by a fresh cache, and that is what the last call returned.
C4_IncrementalIsBatch ==
    /\ (pc[1] = "store" /\ cache.position = Len(file))
        => cache.daily_state = FreshDaily(file)
    /\ (pc[1] = "idle" /\ cache.inode # NoInode /\ cache.position = Len(file))
        => /\ cache.daily_state = FreshDaily(file)
           /\ cache.summary = FreshSummary(file)
           /\ result[1] = Returned(cache.summary)

\* A call has just read on from a saved offset inside the file, and the
\* aggregator holds two days.
C4_Witness ==
    /\ pc[1] = "store" /\ cache.position = Len(file)
    /\ start_pos[1] > 0 /\ start_pos[1] < Len(file)
    /\ Cardinality(DOMAIN cache.daily_state) = 2

C6_InvalidateRebuilds ==
    [][/\ (hist'.afterInv /\ pc'[1] = "idle") => cache' = EmptyCache
       /\ (hist.afterInv /\ ReadStep)
            => /\ start_pos[1] = 0
               /\ cache'.daily_state = FreshDaily(file)
               /\ cache'.position = Len(file)
       /\ (hist.afterInv /\ StoreStep)
            => result'[1] = Returned(SummariesFromState(cache.daily_state))]_vars

\* The call after an invalidate() has rebuilt the aggregator of a file
\* the cache had read before.
C6_Witness ==
    /\ hist.afterInv /\ pc[1] = "store"
    /\ cache.daily_state # EmptyDaily
    /\ result[1].kind = "returned" /\ result[1].val # <<>>

\* The cache a single pass over `bytes` by a fresh cache leaves.
BuiltFrom(bytes) ==
    [daily_state |-> FreshDaily(bytes), summary |-> FreshSummary(bytes),
     position |-> Len(bytes), inode |-> finode, size |-> Len(bytes),
     build_ts |-> "time"]

RelayRunning == renabled /\ ~rstop

\* A complete line of the file ends at offset e.
LineEndsAt(e) == fexists /\ e <= Len(file) /\ file[e] = NL

\* C9: while the relay runs, every complete line of the file is
\* eventually consumed: the saved offset reaches its end (unless the file
\* loses the line or the relay is stopped first).
C9_LinesConsumed ==
    \A e \in 1..MaxFile :
        (RelayRunning /\ LineEndsAt(e))
            ~> (rlast_size >= e \/ ~RelayRunning \/ ~LineEndsAt(e))

\* The file starts with a complete line of this kind.
StartsWithLine(kind) ==
    fexists /\ Len(file) >= Len(Line(kind))
            /\ SubSeq(file, 1, Len(Line(kind))) = Line(kind)

\* C10: every measurements payload is the whole text of a line, and a
\* line the writer has completed is published (unless the file loses the
\* line or the relay is stopped first).
C10_WholeLinesPublished ==
    /\ [](\A i \in 1..Len(published) :
            published[i].topic = "measurements"
                => \E kind \in TextKinds : published[i].payload = JsonText(kind))
    /\ \A kind \in WriterKinds :
            (RelayRunning /\ StartsWithLine(kind))
                ~> \/ \E i \in 1..Len(published) :
                        published[i] = [topic |-> "measurements",
                                        payload |-> JsonText(kind)]
                   \/ ~RelayRunning
                   \/ ~StartsWithLine(kind)

\* C11: the status message of a record carries internet_up = true when
\* loss_pct is a number below 100, false when it is a number of 100 or
\* more, and null when loss_pct is absent, null or no number.
C11_InternetUp ==
    (call.fn = "status" /\ call.done)
        => LET loss == call.arg.loss_pct
               up == call.ret.internet_up
           IN  /\ (PyFloat(loss) # None /\ PyFloat(loss).v < 100) => up = True
               /\ (PyFloat(loss) # None /\ PyFloat(loss).v >= 100) => up = False
               /\ PyFloat(loss) = None => up = None

\* The two messages of a line of this kind that parses as a record.
Measurement(kind) == [topic |-> "measurements", payload |-> JsonText(kind)]
Status(kind) == [topic |-> "status", payload |-> StatusPayload(Decoded(kind))]

\* C12: a status publish always follows the measurements publish of the
\* line it is derived from, and a complete record line of the file gets
\* its measurements publish followed by its status publish (unless the
\* file loses the line or the relay is stopped first).
C12_OnePublishPerLine ==
    /\ [](\A i \in 1..Len(published) :
            published[i].topic = "status"
                => /\ i > 1
                   /\ published[i - 1].topic = "measurements"
                   /\ JsonLoads(published[i - 1].payload).res = "object"
                   /\ published[i].payload =
                        StatusPayload(JsonLoads(published[i - 1].payload).rec))
    /\ (RelayRunning /\ StartsWithLine("r1"))
            ~> \/ \E i \in 1..(Len(published) - 1) :
                    /\ published[i] = Measurement("r1")
                    /\ published[i + 1] = Status("r1")
               \/ ~RelayRunning
               \/ ~StartsWithLine("r1")

\* The read of the request thread ends: its position is stored, or an
\* exception leaves the loop.
ReadEnds == pc[1] = "read" /\ pc'[1] # "read"

\* The line makes an iteration of the cache's read loop raise.
Raises(line) == MergeLine(EmptyDaily, line).raised

RECURSIVE MergedInOrder(_, _)
\* The aggregator after these lines were merged one after the other.
MergedInOrder(daily, lines) ==
    IF lines = <<>> THEN daily
    ELSE MergedInOrder(MergeLine(daily, Head(lines)).daily, Tail(lines))

RECURSIVE IsSubsequence(_, _)
\* The elements of a occur in b, in the order of a.
IsSubsequence(a, b) ==
    IF a = <<>> THEN TRUE
    ELSE IF b = <<>> THEN FALSE
    ELSE IF Head(a) = Head(b) THEN IsSubsequence(Tail(a), Tail(b))
    ELSE IsSubsequence(a, Tail(b))

\* The texts of the lines of the file, and the measurements payloads.
LineTexts(bytes) == [i \in 1..Len(LinesOf(bytes)) |-> Strip(LinesOf(bytes)[i])]
MeasurementPayloads ==
    LET ms == SelectSeq(published, LAMBDA m : m.topic = "measurements")
    IN  [i \in 1..Len(ms) |-> ms[i].payload]

C14_SameRotationRule ==
    [][CheckStep =>
        LET rule == cache.inode # st[1].ino \/ st[1].size < cache.position
        IN  /\ IsRotated(cache, st[1]) <=> rule
            /\ RelayIsRotated(cache.inode, cache.position, st[1]) <=> rule]_vars

\* The line is a record the aggregator counts: a JSON object with a
\* timestamp.
IsAggregable(line) ==
    /\ JsonLoads(Strip(line)).res = "object"
    /\ Truthy(JsonLoads(Strip(line)).rec.timestamp)

\* C15: a malformed line (blank, no JSON, JSON that is no object, a record
\* without timestamp) never fails get_snapshot(): every read ends with its
\* position stored, having merged every aggregable line it met and dropped
\* the others.
C15_MalformedDropped ==
    [][ReadEnds =>
        /\ pc'[1] = "store"
        /\ cache'.daily_state =
                MergedInOrder(cache.daily_state,
                              SelectSeq(ReadLinesFrom(file, start_pos[1]),
                                        IsAggregable))]_vars

\* C16: a transient I/O failure never surfaces: no call of get_snapshot()
\* on a log of well-formed and unparsable lines, which may vanish and come
\* back at any moment, ends by raising.
C16_NeverSurfaced == result[1].kind # "raised"

\* The request thread finds the log file absent, at the existence check
\* or at the stat.
FindsAbsent == pc[1] \in {"exists", "stat"} /\ ~fexists /\ pc'[1] # pc[1]

\* C17: a get_snapshot() that finds the log file absent returns an empty
\* snapshot and leaves the cache in its initial state (no days, no
\* snapshot, offset 0, no inode); the next call that finds a file reads it
\* from byte 0: aggregator and offset are those of a fresh cache over the
\* file, and the snapshot returned is the one of that aggregator.
C17_AbsentResets ==
    [][/\ FindsAbsent
            => /\ pc'[1] = "idle"
               /\ result'[1] = Returned(<<>>)
               /\ cache' = EmptyCache
       /\ (hist.afterAbsent /\ ReadStep)
            => /\ start_pos[1] = 0
               /\ cache'.daily_state = FreshDaily(file)
               /\ cache'.position = Len(file)
       /\ (hist.afterAbsent /\ StoreStep)
            => result'[1] = Returned(SummariesFromState(cache.daily_state))]_vars

\* After a call found the file absent, the file is back with a record
\* and the next call has aggregated it.
C17_Witness ==
    /\ hist.afterAbsent /\ pc[1] = "store"
    /\ result[1] = Returned(<<>>)
    /\ cache.daily_state # EmptyDaily
    /\ ops > 0

\* The relay finds the log file absent: at the existence check, at the
\* stat, or at the open.
RelayFindsAbsent == rpc \in {"exists", "stat", "read"} /\ ~fexists /\ rpc' # rpc

\* C18: a step of the relay that finds the log file absent changes
\* neither the saved offset nor the saved inode, publishes nothing, and
\* goes back to the head of the loop to poll again.
C18_AbsentNoChange ==
    [][RelayFindsAbsent
            => /\ rlast_size' = rlast_size
               /\ rlast_inode' = rlast_inode
               /\ published' = published
               /\ rclient' = rclient
               /\ rpc' = "while"]_vars

\* The relay, which had saved the inode of a file, has just found the
\* file absent.
C18_Witness ==
    /\ hist.rabsent /\ rpc = "while" /\ ~fexists
    /\ rlast_inode # NoInode

C20_StopTerminates ==
    /\ [][(rpc = "while" /\ rstop) => rpc' \in {"while", "done"}]_vars
    /\ [][rpc = "done" => rpc' = "done"]_vars
    /\ rstop ~> rpc = "done"

\* run() has returned after stop(), with a file there that the relay had
\* been polling.
C20_Witness ==
    /\ rstop /\ rpc = "done"
    /\ fexists /\ file # <<>>
    /\ rlast_inode = finode

C22_NeverFatal ==
    (renabled /\ ~rstop) => rpc \notin {"done", "raised"}

\* The records merged so far whose day is the given one.
MergedOf(day) ==
    {i \in 1..call.ret.n :
        /\ Truthy(call.arg[i].timestamp)
        /\ SplitT(call.arg[i].timestamp.v) = day}

\* The merged records of a day with a numeric loss_pct.
NumericLossOf(day) == {i \in MergedOf(day) : IsNumber(call.arg[i].loss_pct)}

\* C23: for every day, good, down and degraded are the numbers of merged
\* records of the day whose numeric loss is 0, 100 and anything else, and
\* the row's uptime_pct is 100 * (total_probes - down_probes) / total_probes.
C23_Classification ==
    call.fn = "aggregate" =>
        /\ \A day \in DOMAIN call.ret.daily :
              LET d == call.ret.daily[day]
                  numeric == NumericLossOf(day)
              IN  /\ d.total_probes = Cardinality(MergedOf(day))
                  /\ d.good_probes =
                        Cardinality({i \in numeric : call.arg[i].loss_pct.v = 0})
                  /\ d.down_probes =
                        Cardinality({i \in numeric : call.arg[i].loss_pct.v = 100})
                  /\ d.degraded_probes =
                        Cardinality({i \in numeric :
                                        call.arg[i].loss_pct.v \notin {0, 100}})
        /\ call.done =>
              /\ Len(call.ret.summary) = Cardinality(DOMAIN call.ret.daily)
              /\ \A r \in 1..Len(call.ret.summary) :
                    LET row == call.ret.summary[r]
                        d == call.ret.daily[row.date]
                    IN  /\ row.total_probes = d.total_probes
                        /\ row.good_probes = d.good_probes
                        /\ row.down_probes = d.down_probes
                        /\ row.degraded_probes = d.degraded_probes
                        /\ row.uptime_pct.num * d.total_probes =
                              100 * (d.total_probes - d.down_probes)
                                  * row.uptime_pct.den

\* Losses 0, 50 and 100 on one day: three probes, one in each bucket,
\* uptime 200/3.
C23_Witness ==
    /\ call.fn = "aggregate" /\ call.done
    /\ \E r \in 1..Len(call.ret.summary) :
          LET row == call.ret.summary[r]
          IN  /\ row.total_probes = 3
              /\ row.good_probes = 1 /\ row.degraded_probes = 1
              /\ row.down_probes = 1
              /\ row.uptime_pct = [num |-> 200, den |-> 3]

\* A step that merges the next record.
MergeStep ==
    /\ call.fn = "aggregate"
    /\ call'.ret.n = call.ret.n + 1

\* The record the next merge step takes.
NextRecord == call.arg[call.ret.n + 1]

\* The state of a day before a step: a day not yet known starts empty.
DayBefore(day) ==
    IF day \in DOMAIN call.ret.daily THEN call.ret.daily[day] ELSE NewDayState(day)

LossFields ==
    {"loss_sum", "loss_count", "good_probes", "degraded_probes", "down_probes"}

\* C24: merging a record with a timestamp whose loss_pct is missing or no
\* number adds one to total_probes of its day and leaves loss_sum,
\* loss_count, good_probes, degraded_probes and down_probes as they were.
C24_NonNumericLossFrame ==
    [][(/\ MergeStep
        /\ Truthy(NextRecord.timestamp)
        /\ ~IsNumber(NextRecord.loss_pct))
       => LET day == SplitT(NextRecord.timestamp.v)
              old == DayBefore(day)
              new == call'.ret.daily[day]
          IN  /\ new.total_probes = old.total_probes + 1
              /\ \A f \in LossFields : new[f] = old[f]]_vars

\* A record with text for loss_pct has just been merged into a day that
\* already had a numeric loss sample.
C24_Witness ==
    /\ call.fn = "aggregate" /\ call.ret.n = 2
    /\ IsNumber(call.arg[1].loss_pct) /\ call.arg[1].loss_pct.v = 50
    /\ call.arg[2].loss_pct = Str(<<5, 0>>)
    /\ call.ret.daily[Date1].total_probes = 2
    /\ call.ret.daily[Date1].loss_count = 1

\* The merged records of a day whose rtt_avg_ms float() accepts.
ParsingRttOf(day) ==
    {i \in MergedOf(day) : PyFloat(call.arg[i].rtt_avg_ms) # None}

RttValue(i) == PyFloat(call.arg[i].rtt_avg_ms).v

RECURSIVE SumRtt(_)
SumRtt(idx) ==
    IF idx = {} THEN 0
    ELSE LET i == CHOOSE j \in idx : TRUE
         IN  RttValue(i) + SumRtt(idx \ {i})

\* C25: after every merged record, the RTT count, sum, minimum and maximum
\* of every day are those of the merged records of the day whose
\* rtt_avg_ms parses as a number, and the row's mean is their mean; the
\* four fields being determined by the parsing records alone, a record
\* with absent or non-parsing rtt_avg_ms changes none of them.
C25_RttOverParsing ==
    call.fn = "aggregate" =>
        /\ \A day \in DOMAIN call.ret.daily :
              LET d == call.ret.daily[day]
                  parsing == ParsingRttOf(day)
              IN  /\ d.rtt_count = Cardinality(parsing)
                  /\ d.rtt_sum = SumRtt(parsing)
                  /\ parsing = {} => d.rtt_min = None /\ d.rtt_max = None
                  /\ parsing # {} =>
                        /\ \E i \in parsing : d.rtt_min = Num(RttValue(i))
                        /\ \E i \in parsing : d.rtt_max = Num(RttValue(i))
                        /\ \A i \in parsing :
                              d.rtt_min.v <= RttValue(i) /\ RttValue(i) <= d.rtt_max.v
        /\ call.done =>
              \A r \in 1..Len(call.ret.summary) :
                  LET row == call.ret.summary[r]
                      d == call.ret.daily[row.date]
                      parsing == ParsingRttOf(row.date)
                  IN  /\ row.min_rtt_ms = d.rtt_min
                      /\ row.max_rtt_ms = d.rtt_max
                      /\ parsing # {} =>
                            /\ row.avg_rtt_ms # None
                            /\ row.avg_rtt_ms.num * Cardinality(parsing) =
                                  SumRtt(parsing) * row.avg_rtt_ms.den

\* RTTs 12, absent and 18 on one day: three probes, mean 15, minimum 12,
\* maximum 18.
C25_Witness ==
    /\ call.fn = "aggregate" /\ call.done
    /\ Len(call.arg) = 3 /\ call.arg[2].rtt_avg_ms = None
    /\ call.arg[2].timestamp = call.arg[1].timestamp
    /\ \E r \in 1..Len(call.ret.summary) :
          LET row == call.ret.summary[r]
          IN  /\ row.total_probes = 3
              /\ call.ret.daily[row.date].rtt_count = 2
              /\ row.avg_rtt_ms = [num |-> 15, den |-> 1]
              /\ row.min_rtt_ms = Num(12) /\ row.max_rtt_ms = Num(18)

RECURSIVE SumLoss(_)
SumLoss(idx) ==
    IF idx = {} THEN 0
    ELSE LET i == CHOOSE j \in idx : TRUE
         IN  call.arg[i].loss_pct.v + SumLoss(idx \ {i})

\* C26: in every row, avg_loss_pct is the mean of the day's numeric loss
\* samples, or 0 when there is none; avg_rtt_ms is the mean of the day's
\* RTT samples, or None (and not 0) when there is none; and the row of a
\* day without probes has uptime_pct 0.
C26_RowDefaults ==
    /\ SummaryRow(NewDayState(Date1)).uptime_pct = [num |-> 0, den |-> 1]
    /\ (call.fn = "aggregate" /\ call.done) =>
          \A r \in 1..Len(call.ret.summary) :
              LET row == call.ret.summary[r]
                  numeric == NumericLossOf(row.date)
                  parsing == ParsingRttOf(row.date)
              IN  /\ numeric = {} => row.avg_loss_pct = [num |-> 0, den |-> 1]
                  /\ numeric # {} =>
                        row.avg_loss_pct.num * Cardinality(numeric) =
                            SumLoss(numeric) * row.avg_loss_pct.den
                  /\ parsing = {} => row.avg_rtt_ms = None
                  /\ parsing # {} =>
                        /\ row.avg_rtt_ms # None
                        /\ row.avg_rtt_ms.num * Cardinality(parsing) =
                              SumRtt(parsing) * row.avg_rtt_ms.den

\* A snapshot with a day that has probes but neither a loss nor an RTT
\* sample, next to a day that has both.
C26_Witness ==
    /\ call.fn = "aggregate" /\ call.done
    /\ Len(call.ret.summary) = 2
    /\ call.ret.summary[1].avg_loss_pct = [num |-> 25, den |-> 1]
    /\ call.ret.summary[1].avg_rtt_ms # None
    /\ call.ret.summary[2].total_probes = 1
    /\ call.ret.summary[2].avg_loss_pct = [num |-> 0, den |-> 1]
    /\ call.ret.summary[2].avg_rtt_ms = None

\* The first ten characters of a text (all of it when it is shorter).
FirstTen(s) == SubSeq(s, 1, IF Len(s) < 10 THEN Len(s) ELSE 10)

\* C27: the days known after any number of merged records are the first
\* ten characters of the timestamps of the merged records.
C27_DayIsFirstTen ==
    call.fn = "aggregate" =>
        DOMAIN call.ret.daily =
            {FirstTen(call.arg[i].timestamp.v) :
                i \in {j \in 1..call.ret.n : Truthy(call.arg[j].timestamp)}}

\* A sequence of texts in strictly ascending order.
StrictlyAscending(s) == \A i \in 1..(Len(s) - 1) : LexLess(s[i], s[i + 1])

Elements(s) == {s[i] : i \in 1..Len(s)}

\* A record's target: its target field, or dst_host when target is absent
\* or empty.
TargetOf(rec) ==
    IF rec.target = None \/ rec.target = Str(<<>>) THEN rec.dst_host ELSE rec.target

\* The texts a field takes in the records of a set, absent and empty
\* values left out.
TextsOf(values) == {PyStr(x) : x \in {y \in values : y # None /\ y # Str(<<>>)}}

\* C28: the snapshot lists the known days once each in strictly ascending
\* order, and each row's targets and public_ips are the day's targets and
\* addresses once each in strictly ascending order, a record's target
\* being its target field or else its dst_host.
C28_SortedOnce ==
    (call.fn = "aggregate" /\ call.done) =>
        LET summary == call.ret.summary
            dates == [r \in 1..Len(summary) |-> summary[r].date]
        IN  /\ StrictlyAscending(dates)
            /\ Elements(dates) = DOMAIN call.ret.daily
            /\ Elements(dates) =
                  {SplitT(call.arg[i].timestamp.v) :
                      i \in {j \in 1..call.ret.n : Truthy(call.arg[j].timestamp)}}
            /\ \A r \in 1..Len(summary) :
                  LET recs == {call.arg[i] : i \in MergedOf(summary[r].date)}
                  IN  /\ StrictlyAscending(summary[r].targets)
                      /\ Elements(summary[r].targets) =
                            TextsOf({TargetOf(rec) : rec \in recs})
                      /\ StrictlyAscending(summary[r].public_ips)
                      /\ Elements(summary[r].public_ips) =
                            TextsOf({rec.public_ip : rec \in recs})

\* A snapshot of two days whose first day has two targets, one of them
\* taken from dst_host, and two addresses.
C28_Witness ==
    /\ call.fn = "aggregate" /\ call.done
    /\ Len(call.ret.summary) = 2
    /\ call.ret.summary[1].targets = << <<65>>, <<66>> >>
    /\ call.ret.summary[1].public_ips = << <<80>>, <<81>> >>
    /\ call.arg[1].target = None

\* The kind of a complete line of the file.
KindOfLine(line) == CHOOSE kind \in TextKinds : JsonText(kind) = Strip(line)

\* The syntactically valid JSON lines of a file, decoded, in file order.
ValidRecords(bytes) ==
    LET good == SelectSeq(LinesOf(bytes),
                          LAMBDA l : KindOfLine(l) \notin {"bad", "blank"})
    IN  [i \in 1..Len(good) |-> Decoded(KindOfLine(good[i]))]

\* C29: tail(n) returns the last min(n, v) valid lines of the file in file
\* order, v being the number of valid lines; blank and malformed lines do
\* not count toward n.
C29_LastValid ==
    call.fn = "tail" =>
        LET valid == ValidRecords(call.arg.bytes)
            v == Len(valid)
            m == IF call.arg.n < v THEN call.arg.n ELSE v
        IN  call.ret = SubSeq(valid, v - m + 1, v)

\* How often a record occurs in a sequence.
Occurrences(s, x) == Cardinality({i \in 1..Len(s) : s[i] = x})

\* C30: forDay(day) returns the valid records of the whole file whose
\* timestamp starts with day, each as often as the file holds it, blank
\* lines, invalid JSON and records of other days left out, in ascending
\* order of timestamp; the answer is empty when the file is absent or day
\* is empty.
C30_ForDay ==
    call.fn = "forDay" =>
        /\ ~call.ret.raised
        /\ IF ~call.arg.exists \/ call.arg.day = <<>>
           THEN call.ret.records = <<>>
           ELSE LET expected ==
                        SelectSeq(ValidRecords(call.arg.bytes),
                                  LAMBDA r : /\ r.timestamp # None
                                             /\ StartsWith(r.timestamp.v, call.arg.day))
                    got == call.ret.records
                IN  /\ Len(got) = Len(expected)
                    /\ \A i \in 1..Len(expected) :
                          Occurrences(got, expected[i]) =
                              Occurrences(expected, expected[i])
                    /\ \A i \in 1..(Len(got) - 1) :
                          ~LexLess(got[i + 1].timestamp.v, got[i].timestamp.v)

\* forDay on a file that holds a later record of the day, invalid JSON and
\* an earlier record of the day, in that order: the two records come back
\* earlier first.
C30_Witness ==
    /\ call.fn = "forDay" /\ call.arg.exists /\ call.arg.day = <<1>>
    /\ call.arg.bytes = Line("r2") \o Line("bad") \o Line("r1")
    /\ call.ret.records = <<Decoded("r1"), Decoded("r2")>>

\* C31: a step of tail(n) or forDay(day) and a step of the relay's poll
\* cycle leave the summary cache as it was, and a step of get_snapshot()
\* or invalidate() leaves the relay's saved offset and identity as they
\* were.
C31_IndependentCursors ==
    [][/\ (call' # call \/ relayvars' # relayvars) => cache' = cache
       /\ cachevars' # cachevars =>
             (rlast_size' = rlast_size /\ rlast_inode' = rlast_inode)]_vars

\* The cache has read a record, the relay has polled the same file and
\* reset its own offset, and tail has answered in between.
C31_Witness ==
    /\ cache.position > 0 /\ cache.summary # <<>>
    /\ rlast_inode = finode /\ rlast_size = 0
    /\ call.fn = "tail" /\ call.ret # <<>>

\* The value the file sets for a key: that of its last "key=value" line.
RECURSIVE FileValue(_, _, _)
FileValue(lines, key, default) ==
    IF lines = <<>> THEN default
    ELSE LET line == CfgStrip(Head(lines))
             here == /\ \E i \in 1..Len(line) : line[i] = CfgEq
                     /\ CfgSplit(line).k = <<key>>
         IN  FileValue(Tail(lines), key, IF here THEN CfgSplit(line).v ELSE default)

ConfigEntries ==
    [targets_display |-> "TARGETS", interval |-> "INTERVAL_SECONDS",
     enable_mtr |-> "ENABLE_MTR", mtr_cycles |-> "MTR_CYCLES",
     mtr_max_hops |-> "MTR_MAX_HOPS", mtr_timeout |-> "MTR_TIMEOUT_SECONDS"]

\* C32: what read_config() returns for a file that sets all six keys is a
\* mapping whose six entries hold the values of the file.
C32_ConfigMapping ==
    (/\ call.fn = "config" /\ call.done
     /\ call.ret.exists /\ call.ret.text = FullConfig)
    => /\ call.ret.reply.type = "dict"
       /\ \A e \in DOMAIN ConfigEntries :
             /\ e \in DOMAIN call.ret.reply.items
             /\ call.ret.reply.items[e] =
                   FileValue(CfgLinesOf(call.ret.text), ConfigEntries[e], <<>>)

\* C33: whenever no get_snapshot() call is under way, the aggregator is
\* the merge of exactly the aggregable lines that lie before the cache's
\* position in the file, also after a call that failed while reading.
C33_CursorMatchesAggregator ==
    pc[1] = "idle" =>
        cache.daily_state =
            MergedInOrder(EmptyDaily,
                          SelectSeq(LinesOf(SubSeq(file, 1, cache.position)),
                                    IsAggregable))

\* C34: when the relay has found a new identity or a size below its saved
\* offset, its offset is 0 before it reads; and a poll that reads from
\* offset 0 a file whose first line is a complete record is followed by
\* the publish of that line as the first message (unless the file loses
\* the line or the relay is stopped first).
C34_RotationReadFromStart ==
    /\ [][(/\ rpc = "stat" /\ rpc' = "read"
           /\ (rlast_inode # finode \/ Len(file) < rlast_size))
          => rlast_size' = 0]_vars
    /\ (RelayRunning /\ rpc = "read" /\ rlast_size = 0 /\ StartsWithLine("r1"))
            ~> \/ /\ published # <<>>
                  /\ published[1] = [topic |-> "measurements",
                                     payload |-> JsonText("r1")]
               \/ ~RelayRunning
               \/ ~StartsWithLine("r1")

CountFields == {"total_probes", "good_probes", "degraded_probes", "down_probes"}

\* The rows of a snapshot by day.
RowOf(summary, day) ==
    summary[CHOOSE i \in 1..Len(summary) : summary[i].date = day]

SnapshotDays(summary) == {summary[i].date : i \in 1..Len(summary)}

\* Cache d holds at least what cache c holds: offset, days, counts and
\* sets of the aggregator and of the snapshot.
NothingLost(c, d) ==
    /\ d.position >= c.position
    /\ DOMAIN c.daily_state \subseteq DOMAIN d.daily_state
    /\ \A day \in DOMAIN c.daily_state :
          /\ \A f \in CountFields : d.daily_state[day][f] >= c.daily_state[day][f]
          /\ c.daily_state[day].targets \subseteq d.daily_state[day].targets
          /\ c.daily_state[day].public_ips \subseteq d.daily_state[day].public_ips
    /\ SnapshotDays(c.summary) \subseteq SnapshotDays(d.summary)
    /\ \A day \in SnapshotDays(c.summary) :
          /\ \A f \in CountFields :
                RowOf(d.summary, day)[f] >= RowOf(c.summary, day)[f]
          /\ Elements(RowOf(c.summary, day).targets)
                \subseteq Elements(RowOf(d.summary, day).targets)
          /\ Elements(RowOf(c.summary, day).public_ips)
                \subseteq Elements(RowOf(d.summary, day).public_ips)

\* C35: every step either leaves the cache cleared (a reset) or loses
\* nothing: the offset does not decrease, no day disappears from the
\* aggregator or the snapshot, and no count or set of a day shrinks.
C35_GrowsBetweenResets ==
    [][cache' = EmptyCache \/ NothingLost(cache, cache')]_vars

\* A second call has read on from the offset the first one stored and
\* has added a second day to the first; the snapshot is still the first
\* call's.
C35_Witness ==
    /\ pc[1] = "store" /\ start_pos[1] = Len(Line("r1"))
    /\ cache.position = Len(Line("r1")) + Len(Line("r3"))
    /\ Len(cache.summary) = 1
    /\ DOMAIN cache.daily_state = {<<1>>, <<2>>}

\* The bounds of one day's counters.
DayBounds(d) ==
    /\ d.total_probes >= 1
    /\ d.good_probes + d.degraded_probes + d.down_probes = d.loss_count
    /\ d.loss_count <= d.total_probes
    /\ d.rtt_count <= d.total_probes

\* C36: in every aggregator state and in every snapshot, each known day
\* has at least one probe, its three buckets add up to loss_count, which
\* like rtt_count is at most total_probes, and its uptime_pct lies between
\* 0 and 100.
C36_CounterBounds ==
    call.fn = "aggregate" =>
        /\ \A day \in DOMAIN call.ret.daily : DayBounds(call.ret.daily[day])
        /\ \A r \in 1..Len(call.ret.summary) :
              LET row == call.ret.summary[r]
              IN  /\ row.total_probes >= 1
                  /\ row.good_probes + row.degraded_probes + row.down_probes
                        <= row.total_probes
                  /\ row.uptime_pct.den > 0
                  /\ 0 <= row.uptime_pct.num
                  /\ row.uptime_pct.num <= 100 * row.uptime_pct.den

\* A snapshot row of three probes of which one has no numeric loss, one
\* is down and one has no RTT.
C36_Witness ==
    /\ call.fn = "aggregate" /\ call.done
    /\ Len(call.ret.summary) = 1
    /\ call.ret.summary[1].total_probes = 3
    /\ call.ret.summary[1].down_probes = 1
    /\ call.ret.daily[call.ret.summary[1].date].loss_count = 2
    /\ call.ret.daily[call.ret.summary[1].date].rtt_count = 2

\* a <= b for two values.
FlLeq(a, b) == ~FlLess(b, a)

\* rtt_count times a value, exactly.
Times(n, a) == [num |-> n * a.num, den |-> a.den]

\* C37: rtt_min and rtt_max are None exactly when rtt_count is 0;
\* otherwise rtt_min <= rtt_max and rtt_sum lies between rtt_count times
\* rtt_min and rtt_count times rtt_max, and the row's avg_rtt_ms lies
\* between min_rtt_ms and max_rtt_ms.
C37_RttOrder ==
    call.fn = "rtt" =>
        LET d == call.ret.d
        IN  /\ (d.rtt_min = None) <=> (d.rtt_count = 0)
            /\ (d.rtt_max = None) <=> (d.rtt_count = 0)
            /\ d.rtt_count > 0 =>
                  /\ FlLeq(d.rtt_min, d.rtt_max)
                  /\ FlLeq(Times(d.rtt_count, d.rtt_min), d.rtt_sum)
                  /\ FlLeq(d.rtt_sum, Times(d.rtt_count, d.rtt_max))
            /\ (call.done /\ d.rtt_count > 0) =>
                  /\ FlLeq(d.rtt_min, call.ret.avg_rtt_ms)
                  /\ FlLeq(call.ret.avg_rtt_ms, d.rtt_max)

\* C38: the sensor is unknown when there is no record or the latest
\* record's loss_pct is absent or no number, on when it is below 100, off
\* when it is 100 or more, and its value is the internet_up the relay
\* derives for that record.
C38_SensorIsRelayStatus ==
    (call.fn = "sensor" /\ call.ret.sensor.set) =>
        LET record == LatestRecord(call.arg)
            on == call.ret.sensor.value
        IN  /\ record = None => on = None
            /\ record # None =>
                  LET loss == record.loss_pct
                  IN  /\ PyFloat(loss) = None => on = None
                      /\ (PyFloat(loss) # None /\ PyFloat(loss).v < 100) => on = True
                      /\ (PyFloat(loss) # None /\ PyFloat(loss).v >= 100) => on = False
            /\ call.ret.relay.set => call.ret.relay.value = on

\* The lines of a configuration text that set the key, as read_config
\* takes them.
LinesSetting(text, key) ==
    LET lines == CfgLinesOf(text)
    IN  {i \in 1..Len(lines) :
            /\ \E j \in 1..Len(lines[i]) : lines[i][j] = CfgEq
            /\ CfgSplit(CfgStrip(lines[i])).k = <<key>>}

\* C39: after a POST /config the configuration file does not exist, or it
\* holds at most one TARGETS line and at most one INTERVAL_SECONDS line,
\* whose value is made of digits only; the interval read_config() answers
\* is made of digits only.
C39_ConfigWellFormed ==
    (call.fn = "config" /\ call.arg.posted) =>
        /\ call.ret.exists =>
              LET lines == CfgLinesOf(call.ret.text)
              IN  /\ Cardinality(LinesSetting(call.ret.text, "TARGETS")) <= 1
                  /\ Cardinality(LinesSetting(call.ret.text, "INTERVAL_SECONDS")) <= 1
                  /\ \A i \in LinesSetting(call.ret.text, "INTERVAL_SECONDS") :
                        IsDigit(CfgSplit(CfgStrip(lines[i])).v)
        /\ IsDigit(call.ret.reply.items[2])
====
